---- MODULE Spec2Model ----
(***************************************************************************)
(* Scrape orchestration of AI-Job-Companion: ScrapersService (health      *)
(* tracking, candidate selection, batched runs, job upsert, scoring of    *)
(* new jobs) and the ScrapersController summary.                           *)
(*                                                                         *)
(* Time is counted in hours.  An undefined timestamp is None.  Every       *)
(* await of the service is a step boundary: the runs of one batch          *)
(* interleave at their awaits.  One scrapeAll call is followed at a time:  *)
(* a new request is taken when the previous call and its runs have ended.  *)
(*                                                                         *)
(* Two specifications use the same actions.  Spec follows the health       *)
(* tracker over several calls of a two-adapter service with short          *)
(* explicit lists, operator requests and the clock.  SpecBatch follows the *)
(* first call of a three-adapter service, for every adapter or with a long *)
(* list (several batches), and the scoring of the jobs it stored.          *)
(***************************************************************************)
EXTENDS Integers, Sequences, FiniteSets, TLC

VARIABLES
  scrapers,       \* the registered adapters' names, in Map insertion order
  health,         \* sourceHealth: source -> SourceHealth
  scraperEnabled, \* scraper.enabled of every registered adapter
  now,            \* Date.now(), in hours
  jobStore,       \* job table: the stored (source, externalId) keys, oldest first
  scoreRows,      \* jobScore table: the job keys that have a score row for the user
  runRecords,     \* scraperRun rows created by the current scrapeAll call
  call,           \* the current scrapeAll call (unblocked: the sources its
                  \* availability checks found expired and reset; n: calls so far)
  runs,           \* the runScraper invocations launched by the current call
  score,          \* the current scoreNewJobs call
  faults,         \* persistence-gateway errors raised so far
  config,         \* the SearchConfig scrapeAll assembles (keywords), with the
                  \* profile rows and overrides it is assembled from
  scoring,        \* a scoreJob invocation: its job, the user's rows, its result
  fetching        \* a fetchWithRetry call of an adapter: its attempts so far

vars == <<scrapers, health, scraperEnabled, now, jobStore, scoreRows, runRecords,
          call, runs, score, faults, config, scoring, fetching>>

----------------------------------------------------------------------------
(* Bounds of the model *)

MaxNamed == 2        \* Spec: longest explicit sources list of a request
MaxCalls == 3        \* Spec: scrapeAll calls in one behaviour
MaxJobs == 2         \* SpecBatch: most records one adapter.scrape() returns
MaxClock == 24       \* the clock stops advancing here
ClockStep == 12      \* hours between two observed instants
MaxFaults == 1       \* persistence-gateway errors in one behaviour
MaxSources == 4      \* SpecBatch: longest explicit sources list of a request

(* Program constants *)

maxConcurrency == 3
maxConsecutiveFailures == 3
blockDuration == 24
defaultScoreLimit == 50

None == -1

\* The adapters initializeScrapers registers, in Map insertion order.
scraperInstances ==
  <<"indeed", "naukri", "linkedin", "wellfound", "foundit", "hirist", "cutshort">>

\* The adapters a specification registers: those of `names`, in registration order.
Registered(names) == SelectSeq(scraperInstances, LAMBDA n : n \in names)

HealthScrapers == {"indeed", "linkedin"}

BatchScrapers == {"indeed", "naukri", "linkedin"}

\* Names a caller may write in an explicit sources list: registered names, a
\* registered name in another letter case, and a name of no adapter.
RequestNames == {"indeed", "linkedin", "LinkedIn", "monster"}

toLowerCase(name) == IF name = "LinkedIn" THEN "linkedin" ELSE name

Min(a, b) == IF a <= b THEN a ELSE b

Range(s) == {s[k] : k \in 1..Len(s)}

Sources == Range(scrapers)

----------------------------------------------------------------------------
(* Source Health Tracker *)

InitialHealth ==
  [enabled |-> TRUE, isBlocked |-> FALSE, blockedAt |-> None,
   consecutiveFailures |-> 0, lastSuccess |-> None, lastRun |-> None]

\* An availability check that does not look at the block.
isSourceAvailable_ignoresBlock(h, source, t) ==
  IF source \notin DOMAIN h THEN [ret |-> FALSE, health |-> h]
  ELSE [ret |-> h[source].enabled, health |-> h]

\* An availability check that lifts an expired block and keeps the failure count.
isSourceAvailable_keepsCount(h, source, t) ==
  IF source \notin DOMAIN h THEN [ret |-> FALSE, health |-> h]
  ELSE IF h[source].isBlocked THEN
    IF h[source].blockedAt # None /\ t - h[source].blockedAt >= blockDuration
    THEN [ret |-> TRUE,
          health |-> [h EXCEPT ![source].isBlocked = FALSE,
                               ![source].blockedAt = None]]
    ELSE [ret |-> FALSE, health |-> h]
  ELSE [ret |-> h[source].enabled, health |-> h]

\* isSourceAvailable: the value returned and the health map it leaves.
isSourceAvailable(h, source, t) ==
  IF source \notin DOMAIN h THEN [ret |-> FALSE, health |-> h]
  ELSE IF h[source].isBlocked THEN
    IF h[source].blockedAt # None /\ t - h[source].blockedAt >= blockDuration
    THEN [ret |-> TRUE,
          health |-> [h EXCEPT ![source].isBlocked = FALSE,
                               ![source].blockedAt = None,
                               ![source].consecutiveFailures = 0]]
    ELSE [ret |-> FALSE, health |-> h]
  ELSE [ret |-> h[source].enabled, health |-> h]

\* A health update whose success branch leaves the block in place.
updateSourceHealth_keepsBlock(h, source, success, t) ==
  IF source \notin DOMAIN h THEN [ret |-> FALSE, health |-> h]
  ELSE IF success THEN
    [ret |-> FALSE,
     health |-> [h EXCEPT ![source].consecutiveFailures = 0,
                          ![source].lastSuccess = t,
                          ![source].lastRun = t]]
  ELSE
    LET n == h[source].consecutiveFailures + 1 IN
    IF n >= maxConsecutiveFailures
    THEN [ret |-> TRUE,
          health |-> [h EXCEPT ![source].consecutiveFailures = n,
                               ![source].lastRun = t,
                               ![source].isBlocked = TRUE,
                               ![source].blockedAt = t]]
    ELSE [ret |-> FALSE,
          health |-> [h EXCEPT ![source].consecutiveFailures = n,
                               ![source].lastRun = t]]

\* A health update that blocks at the threshold only, like a test with ==.
updateSourceHealth_blocksAtThreshold(h, source, success, t) ==
  IF source \notin DOMAIN h THEN [ret |-> FALSE, health |-> h]
  ELSE IF success THEN
    [ret |-> FALSE,
     health |-> [h EXCEPT ![source].consecutiveFailures = 0,
                          ![source].lastSuccess = t,
                          ![source].lastRun = t,
                          ![source].isBlocked = FALSE,
                          ![source].blockedAt = None]]
  ELSE
    LET n == h[source].consecutiveFailures + 1 IN
    [ret |-> n = maxConsecutiveFailures,
     health |-> [h EXCEPT ![source].consecutiveFailures = n,
                          ![source].lastRun = t,
                          ![source].isBlocked = (n = maxConsecutiveFailures),
                          ![source].blockedAt =
                            IF n = maxConsecutiveFailures THEN t ELSE None]]

\* updateSourceHealth: the value returned and the health map it leaves.
updateSourceHealth(h, source, success, t) ==
  IF source \notin DOMAIN h THEN [ret |-> FALSE, health |-> h]
  ELSE IF success THEN
    [ret |-> FALSE,
     health |-> [h EXCEPT ![source].consecutiveFailures = 0,
                          ![source].lastSuccess = t,
                          ![source].lastRun = t,
                          ![source].isBlocked = FALSE,
                          ![source].blockedAt = None]]
  ELSE
    LET n == h[source].consecutiveFailures + 1 IN
    IF n >= maxConsecutiveFailures
    THEN [ret |-> TRUE,
          health |-> [h EXCEPT ![source].consecutiveFailures = n,
                               ![source].lastRun = t,
                               ![source].isBlocked = TRUE,
                               ![source].blockedAt = t]]
    ELSE [ret |-> FALSE,
          health |-> [h EXCEPT ![source].consecutiveFailures = n,
                               ![source].lastRun = t]]

----------------------------------------------------------------------------
(* Candidate selection of scrapeAll *)

\* The explicit-sources loop: registry lookup by lower-cased name, availability
\* check by the name as written.
RECURSIVE selectNamed(_, _, _, _, _)
selectNamed(h, reg, srcs, t, acc) ==
  IF srcs = <<>> THEN [toRun |-> acc, health |-> h]
  ELSE
    LET source == Head(srcs)
        name == toLowerCase(source)
        found == name \in reg
        av == IF found THEN isSourceAvailable(h, source, t)
                       ELSE [ret |-> FALSE, health |-> h]
    IN selectNamed(av.health, reg, Tail(srcs), t,
                   IF found /\ av.ret THEN Append(acc, name) ELSE acc)

\* The all-sources loop over the registry.
RECURSIVE selectEnabled(_, _, _, _, _)
selectEnabled(h, en, reg, t, acc) ==
  IF reg = <<>> THEN [toRun |-> acc, health |-> h]
  ELSE
    LET name == Head(reg)
        av == IF en[name] THEN isSourceAvailable(h, name, t)
                          ELSE [ret |-> FALSE, health |-> h]
    IN selectEnabled(av.health, en, Tail(reg), t,
                     IF en[name] /\ av.ret THEN Append(acc, name) ELSE acc)

scrapersToRun(h, en, reg, srcs, t) ==
  IF Len(srcs) > 0 THEN selectNamed(h, Range(reg), srcs, t, <<>>)
  ELSE selectEnabled(h, en, reg, t, <<>>)

\* A slice one adapter wider than maxConcurrency.
batchSlice_wide(toRun, i) ==
  SubSeq(toRun, i + 1, Min(i + maxConcurrency + 1, Len(toRun)))

\* scrapersToRun.slice(i, i + maxConcurrency), i counted from 0.
batchSlice(toRun, i) == SubSeq(toRun, i + 1, Min(i + maxConcurrency, Len(toRun)))


----------------------------------------------------------------------------
(* runScraper invocations *)

\* A runScraper invocation that has just issued scraperRun.create.
newRun(source) ==
  [source |-> source, pc |-> "create", runId |-> 0, jobs |-> <<>>, found |-> 0,
   existing |-> FALSE, jobsNew |-> 0, jobsUpdated |-> 0, threw |-> FALSE,
   success |-> FALSE, blocked |-> FALSE]

\* batch.map(scraper => this.runScraper(scraper, config))
launch(batch) == [k \in 1..Len(batch) |-> newRun(batch[k])]

\* A failed result that reports the counts reached before the failure.
resultOf_keepsCounts(run) ==
  [source |-> run.source, success |-> run.success, jobsFound |-> run.found,
   jobsNew |-> run.jobsNew, jobsUpdated |-> run.jobsUpdated,
   error |-> ~run.success, blocked |-> ~run.success /\ run.blocked]

\* The ScraperResult a finished run returned (blocked is undefined, read as
\* FALSE, in a success result).
resultOf(run) ==
  IF run.success
  THEN [source |-> run.source, success |-> TRUE, jobsFound |-> run.found,
        jobsNew |-> run.jobsNew, jobsUpdated |-> run.jobsUpdated,
        error |-> FALSE, blocked |-> FALSE]
  ELSE [source |-> run.source, success |-> FALSE, jobsFound |-> 0, jobsNew |-> 0,
        jobsUpdated |-> 0, error |-> TRUE, blocked |-> run.blocked]

\* External ids of the postings a portal lists; job.source is the adapter's name.
ExternalIds == {"p1"}

JobListsUpTo(n) == UNION {[1..m -> ExternalIds] : m \in 0..n}

JobLists == JobListsUpTo(MaxJobs)

RequestsUpTo(n) == UNION {[1..m -> RequestNames] : m \in 0..n}

Requests == RequestsUpTo(MaxNamed)

\* SpecBatch: a request for every adapter (the empty list), or one that names an
\* adapter up to MaxSources times.
BatchRequests == UNION {[1..m -> {"indeed"}] : m \in 0..MaxSources}

InFlight == {r \in DOMAIN runs : runs[r].pc \notin {"done", "rejected"}}

\* The runs of the batch scrapeAll is awaiting.
CurrentBatch == {r \in DOMAIN runs : r > call.i}

\* No request is being served.
Quiescent == call.pc = "idle" /\ score.pc = "idle"

IdleCall(n) ==
  [pc |-> "idle", sources |-> <<>>, toRun |-> <<>>, unblocked |-> {}, i |-> 0,
   results |-> <<>>, totalJobsNew |-> 0, totalJobsUpdated |-> 0, n |-> n]

IdleScore == [pc |-> "idle", pending |-> <<>>, scored |-> 0, limit |-> 0]

\* No configuration is being assembled, no scoreJob invocation is followed.
NoConfig == [pc |-> "none"]

NoScoring == [pc |-> "none"]

\* No fetchWithRetry call is followed.
NoFetch == [pc |-> "none"]

\* The service after construction, with the adapters `names` registered.
ServiceInit(names) ==
  /\ scrapers = Registered(names)
  /\ health = [s \in names |-> InitialHealth]
  /\ scraperEnabled = [s \in names |-> TRUE]
  /\ now = 0
  /\ jobStore = <<>>
  /\ scoreRows = {}
  /\ runRecords = <<>>
  /\ call = IdleCall(0)
  /\ runs = <<>>
  /\ score = IdleScore
  /\ faults = 0

InitWith(names) ==
  /\ ServiceInit(names)
  /\ fetching = NoFetch
  /\ config = NoConfig
  /\ scoring = NoScoring

Init == InitWith(HealthScrapers)

InitBatch == InitWith(BatchScrapers)

----------------------------------------------------------------------------
(* scrapeAll *)

\* A request arrives: the configuration is built, the candidates are selected
\* and the first batch is launched.
scrapeAll(srcs) ==
  /\ Quiescent
  /\ LET sel == scrapersToRun(health, scraperEnabled, scrapers, srcs, now) IN
       /\ health' = sel.health
       /\ call' = [pc |-> IF Len(sel.toRun) = 0 THEN "returned" ELSE "running",
                   sources |-> srcs, toRun |-> sel.toRun,
                   unblocked |-> {s \in DOMAIN health :
                                    health[s].isBlocked /\ ~sel.health[s].isBlocked},
                   i |-> 0, results |-> <<>>, totalJobsNew |-> 0,
                   totalJobsUpdated |-> 0, n |-> call.n + 1]
       /\ runs' = launch(batchSlice(sel.toRun, 0))
  /\ runRecords' = <<>>
  /\ UNCHANGED <<fetching, config, scoring, scrapers, scraperEnabled, now, jobStore, scoreRows, score, faults>>

\* buildSearchConfig's profile reads fail: the error leaves scrapeAll.
scrapeAllConfigFails(srcs) ==
  /\ Quiescent
  /\ faults < MaxFaults
  /\ faults' = faults + 1
  /\ call' = [pc |-> "threw", sources |-> srcs, toRun |-> <<>>, unblocked |-> {},
              i |-> 0, results |-> <<>>, totalJobsNew |-> 0,
              totalJobsUpdated |-> 0, n |-> call.n + 1]
  /\ runs' = <<>>
  /\ runRecords' = <<>>
  /\ UNCHANGED <<fetching, config, scoring, scrapers, health, scraperEnabled, now, jobStore, scoreRows, score>>

RECURSIVE sumOf(_, _)
sumOf(results, field) ==
  IF results = <<>> THEN 0
  ELSE Head(results)[field] + sumOf(Tail(results), field)

\* A batch whose results are put in front of those of the earlier batches.
batchResolves_newestFirst ==
  /\ call.pc = "running"
  /\ \A r \in CurrentBatch : runs[r].pc = "done"
  /\ LET got == [k \in 1..Cardinality(CurrentBatch) |-> resultOf(runs[call.i + k])]
         next == call.i + maxConcurrency
         more == next < Len(call.toRun)
     IN /\ call' = [call EXCEPT
                      !.results = got \o call.results,
                      !.totalJobsNew = @ + sumOf(got, "jobsNew"),
                      !.totalJobsUpdated = @ + sumOf(got, "jobsUpdated"),
                      !.i = next,
                      !.pc = IF more THEN "running" ELSE "returned"]
        /\ runs' = IF more THEN runs \o launch(batchSlice(call.toRun, next))
                   ELSE runs
  /\ UNCHANGED <<fetching, config, scoring, scrapers, health, scraperEnabled, now, jobStore, scoreRows,
                 runRecords, score, faults>>

\* await Promise.all(...) of the current batch resolves: its results are added in
\* batch order and the next batch is launched, or scrapeAll returns.
batchResolves ==
  /\ call.pc = "running"
  /\ \A r \in CurrentBatch : runs[r].pc = "done"
  /\ LET got == [k \in 1..Cardinality(CurrentBatch) |-> resultOf(runs[call.i + k])]
         next == call.i + maxConcurrency
         more == next < Len(call.toRun)
     IN /\ call' = [call EXCEPT
                      !.results = call.results \o got,
                      !.totalJobsNew = @ + sumOf(got, "jobsNew"),
                      !.totalJobsUpdated = @ + sumOf(got, "jobsUpdated"),
                      !.i = next,
                      !.pc = IF more THEN "running" ELSE "returned"]
        /\ runs' = IF more THEN runs \o launch(batchSlice(call.toRun, next))
                   ELSE runs
  /\ UNCHANGED <<fetching, config, scoring, scrapers, health, scraperEnabled, now, jobStore, scoreRows,
                 runRecords, score, faults>>

\* A run of the current batch rejected: Promise.all rejects and scrapeAll throws,
\* while the batch's other runs go on.
batchRejects ==
  /\ call.pc = "running"
  /\ \E r \in CurrentBatch : runs[r].pc = "rejected"
  /\ call' = [call EXCEPT !.pc = "threw"]
  /\ UNCHANGED <<fetching, config, scoring, scrapers, health, scraperEnabled, now, jobStore, scoreRows,
                 runRecords, runs, score, faults>>


\* The caller has its answer (a result or an error), every run the call launched
\* has ended, and the call's locals are gone.
scrapeAllEnds ==
  /\ call.pc \in {"returned", "threw"}
  /\ InFlight = {}
  /\ call' = IdleCall(call.n)
  /\ runs' = <<>>
  /\ runRecords' = <<>>
  /\ UNCHANGED <<fetching, config, scoring, scrapers, health, scraperEnabled, now, jobStore, scoreRows, score,
                 faults>>

----------------------------------------------------------------------------
(* runScraper *)

RunRecord(source) ==
  [source |-> source, status |-> "running", jobsFound |-> 0, jobsNew |-> 0,
   jobsUpdated |-> 0, errorMessage |-> FALSE]

\* scraperRun.create resolves and adapter.scrape(config) is invoked.
runCreate(r) ==
  /\ runs[r].pc = "create"
  /\ runRecords' = Append(runRecords, RunRecord(runs[r].source))
  /\ runs' = [runs EXCEPT ![r].pc = "scrape", ![r].runId = Len(runRecords) + 1]
  /\ UNCHANGED <<fetching, config, scoring, scrapers, health, scraperEnabled, now, jobStore, scoreRows, call,
                 score, faults>>

\* scraperRun.create rejects, outside the try block: runScraper rejects.
runCreateFails(r) ==
  /\ runs[r].pc = "create"
  /\ faults < MaxFaults
  /\ faults' = faults + 1
  /\ runs' = [runs EXCEPT ![r].pc = "rejected"]
  /\ UNCHANGED <<fetching, config, scoring, scrapers, health, scraperEnabled, now, jobStore, scoreRows,
                 runRecords, call, score>>

afterJob(left) == IF left = <<>> THEN "update" ELSE "find"

scrapeReturns(r, jobs) ==
  /\ runs[r].pc = "scrape"
  /\ runs' = [runs EXCEPT ![r].jobs = jobs, ![r].found = Len(jobs),
                          ![r].pc = afterJob(jobs)]
  /\ UNCHANGED <<fetching, config, scoring, scrapers, health, scraperEnabled, now, jobStore, scoreRows,
                 runRecords, call, score, faults>>

\* Mutant: the adapter's error is not caught and leaves runScraper.
scrapeThrows_uncaught(r) ==
  /\ runs[r].pc = "scrape"
  /\ runs' = [runs EXCEPT ![r].pc = "rejected", ![r].threw = TRUE]
  /\ UNCHANGED <<fetching, config, scoring, scrapers, health, scraperEnabled, now, jobStore, scoreRows,
                 runRecords, call, score, faults>>

scrapeThrows(r) ==
  /\ runs[r].pc = "scrape"
  /\ runs' = [runs EXCEPT ![r].pc = "fail", ![r].threw = TRUE]
  /\ UNCHANGED <<fetching, config, scoring, scrapers, health, scraperEnabled, now, jobStore, scoreRows,
                 runRecords, call, score, faults>>

JobKey(r) == <<runs[r].source, Head(runs[r].jobs)>>

\* processJob: prisma.job.findFirst resolves.
jobFind(r) ==
  /\ runs[r].pc = "find"
  /\ runs' = [runs EXCEPT ![r].existing = (JobKey(r) \in Range(jobStore)),
                          ![r].pc = "upsert"]
  /\ UNCHANGED <<fetching, config, scoring, scrapers, health, scraperEnabled, now, jobStore, scoreRows,
                 runRecords, call, score, faults>>

\* Mutant: a plain insert, without the unique key.
upsertFromScraper_insert(store, key) == Append(store, key)

\* upsertFromScraper: one row per (source, externalId).
upsertFromScraper(store, key) ==
  IF key \in Range(store) THEN store ELSE Append(store, key)

\* processJob: the upsert resolves and the job is counted.
jobUpsert(r) ==
  /\ runs[r].pc = "upsert"
  /\ jobStore' = upsertFromScraper(jobStore, JobKey(r))
  /\ runs' = [runs EXCEPT
                ![r].jobsNew = IF runs[r].existing THEN @ ELSE @ + 1,
                ![r].jobsUpdated = IF runs[r].existing THEN @ + 1 ELSE @,
                ![r].jobs = Tail(@),
                ![r].pc = afterJob(Tail(runs[r].jobs))]
  /\ UNCHANGED <<fetching, config, scoring, scrapers, health, scraperEnabled, now, scoreRows, runRecords,
                 call, score, faults>>

\* A processJob error that is not caught per job and ends the run's try block.
jobFails_aborts(r) ==
  /\ runs[r].pc \in {"find", "upsert"}
  /\ faults < MaxFaults
  /\ faults' = faults + 1
  /\ runs' = [runs EXCEPT ![r].pc = "fail"]
  /\ UNCHANGED <<fetching, config, scoring, scrapers, health, scraperEnabled, now, jobStore,
                 scoreRows, runRecords, call, score>>

\* processJob throws (lookup or upsert): caught per job, the job is not counted.
jobFails(r) ==
  /\ runs[r].pc \in {"find", "upsert"}
  /\ faults < MaxFaults
  /\ faults' = faults + 1
  /\ runs' = [runs EXCEPT ![r].jobs = Tail(@),
                          ![r].pc = afterJob(Tail(runs[r].jobs))]
  /\ UNCHANGED <<fetching, config, scoring, scrapers, health, scraperEnabled, now, jobStore, scoreRows,
                 runRecords, call, score>>

\* The try block ends: run record to success, health updated, result returned.
runSucceeds(r) ==
  /\ runs[r].pc = "update"
  /\ runRecords' = [runRecords EXCEPT ![runs[r].runId] =
                      [@ EXCEPT !.status = "success", !.jobsFound = runs[r].found,
                                !.jobsNew = runs[r].jobsNew,
                                !.jobsUpdated = runs[r].jobsUpdated]]
  /\ health' = updateSourceHealth(health, runs[r].source, TRUE, now).health
  /\ runs' = [runs EXCEPT ![r].pc = "done", ![r].success = TRUE]
  /\ UNCHANGED <<fetching, config, scoring, scrapers, scraperEnabled, now, jobStore, scoreRows, call, score,
                 faults>>

\* scraperRun.update(success) rejects inside the try block: on to the catch block.
runSuccessUpdateFails(r) ==
  /\ runs[r].pc = "update"
  /\ faults < MaxFaults
  /\ faults' = faults + 1
  /\ runs' = [runs EXCEPT ![r].pc = "fail"]
  /\ UNCHANGED <<fetching, config, scoring, scrapers, health, scraperEnabled, now, jobStore, scoreRows,
                 runRecords, call, score>>

\* A catch block that leaves the run record as it is.
runFails_leavesRecord(r) ==
  /\ runs[r].pc = "fail"
  /\ LET upd == updateSourceHealth(health, runs[r].source, FALSE, now) IN
       /\ health' = upd.health
       /\ runs' = [runs EXCEPT ![r].pc = "done", ![r].blocked = upd.ret]
  /\ UNCHANGED <<fetching, config, scoring, scrapers, scraperEnabled, now, jobStore, scoreRows,
                 runRecords, call, score, faults>>

\* The catch block: run record to failed, health updated, failed result returned.
runFails(r) ==
  /\ runs[r].pc = "fail"
  /\ runRecords' = [runRecords EXCEPT ![runs[r].runId] =
                      [@ EXCEPT !.status = "failed", !.errorMessage = TRUE]]
  /\ LET upd == updateSourceHealth(health, runs[r].source, FALSE, now) IN
       /\ health' = upd.health
       /\ runs' = [runs EXCEPT ![r].pc = "done", ![r].blocked = upd.ret]
  /\ UNCHANGED <<fetching, config, scoring, scrapers, scraperEnabled, now, jobStore, scoreRows, call, score,
                 faults>>

\* scraperRun.update(failed) rejects inside the catch block: runScraper rejects.
runFailedUpdateFails(r) ==
  /\ runs[r].pc = "fail"
  /\ faults < MaxFaults
  /\ faults' = faults + 1
  /\ runs' = [runs EXCEPT ![r].pc = "rejected"]
  /\ UNCHANGED <<fetching, config, scoring, scrapers, health, scraperEnabled, now, jobStore, scoreRows,
                 runRecords, call, score>>

----------------------------------------------------------------------------
(* Operator requests and the clock *)

\* A setter that also lifts the block of the source.
setSourceEnabledOn_unblocks(h, source, enabled) ==
  IF source \notin DOMAIN h THEN [ret |-> FALSE, health |-> h]
  ELSE [ret |-> TRUE,
        health |-> [h EXCEPT ![source].enabled = enabled,
                             ![source].isBlocked = FALSE,
                             ![source].blockedAt = None]]

\* setSourceEnabled: the value returned and the health map it leaves.
setSourceEnabledOn(h, source, enabled) ==
  IF source \notin DOMAIN h THEN [ret |-> FALSE, health |-> h]
  ELSE [ret |-> TRUE, health |-> [h EXCEPT ![source].enabled = enabled]]

setSourceEnabled(source, enabled) ==
  /\ health' = setSourceEnabledOn(health, source, enabled).health
  /\ scraperEnabled' = IF source \in DOMAIN health /\ source \in DOMAIN scraperEnabled
                       THEN [scraperEnabled EXCEPT ![source] = enabled]
                       ELSE scraperEnabled
  /\ UNCHANGED <<fetching, config, scoring, scrapers, now, jobStore, scoreRows, runRecords, call, runs, score,
                 faults>>

\* An unblock that keeps the failure count.
unblockSourceOn_keepsCount(h, source) ==
  IF source \notin DOMAIN h THEN [ret |-> FALSE, health |-> h]
  ELSE [ret |-> TRUE,
        health |-> [h EXCEPT ![source].isBlocked = FALSE,
                             ![source].blockedAt = None]]

\* unblockSource: the value returned and the health map it leaves.
unblockSourceOn(h, source) ==
  IF source \notin DOMAIN h THEN [ret |-> FALSE, health |-> h]
  ELSE [ret |-> TRUE,
        health |-> [h EXCEPT ![source].isBlocked = FALSE,
                             ![source].blockedAt = None,
                             ![source].consecutiveFailures = 0]]

unblockSource(source) ==
  /\ health' = unblockSourceOn(health, source).health
  /\ UNCHANGED <<fetching, config, scoring, scrapers, scraperEnabled, now, jobStore, scoreRows, runRecords,
                 call, runs, score, faults>>

Tick ==
  /\ now + ClockStep <= MaxClock
  /\ now' = now + ClockStep
  /\ UNCHANGED <<fetching, config, scoring, scrapers, health, scraperEnabled, jobStore, scoreRows, runRecords,
                 call, runs, score, faults>>

----------------------------------------------------------------------------
(* scoreNewJobs *)

RECURSIVE Reverse(_)
Reverse(s) == IF s = <<>> THEN <<>> ELSE Append(Reverse(Tail(s)), Head(s))

Take(s, n) == SubSeq(s, 1, Min(n, Len(s)))

\* job.findMany: no score row for the user, newest first, at most limit.
unscoredJobs(store, rows, limit) ==
  Take(SelectSeq(Reverse(store), LAMBDA key : key \notin rows), limit)

afterScore(left) == IF left = <<>> THEN "returned" ELSE "scoring"

scoreNewJobs(limit) ==
  /\ Quiescent
  /\ LET found == unscoredJobs(jobStore, scoreRows, limit) IN
       score' = [pc |-> afterScore(found), pending |-> found, scored |-> 0,
                 limit |-> limit]
  /\ UNCHANGED <<fetching, config, scoring, scrapers, health, scraperEnabled, now, jobStore, scoreRows,
                 runRecords, call, runs, faults>>

\* job.findMany rejects, outside the try block: scoreNewJobs rejects.
scoreNewJobsFindFails(limit) ==
  /\ Quiescent
  /\ faults < MaxFaults
  /\ faults' = faults + 1
  /\ score' = [pc |-> "threw", pending |-> <<>>, scored |-> 0, limit |-> limit]
  /\ UNCHANGED <<fetching, config, scoring, scrapers, health, scraperEnabled, now, jobStore, scoreRows,
                 runRecords, call, runs>>

\* scoreJob persists the score row and returns.
scoreJobPersists ==
  /\ score.pc = "scoring"
  /\ scoreRows' = scoreRows \cup {Head(score.pending)}
  /\ score' = [score EXCEPT !.pending = Tail(@), !.scored = @ + 1,
                            !.pc = afterScore(Tail(score.pending))]
  /\ UNCHANGED <<fetching, config, scoring, scrapers, health, scraperEnabled, now, jobStore, runRecords, call,
                 runs, faults>>

\* scoreJob catches an internal error and returns the neutral score: no row.
scoreJobFallsBack ==
  /\ score.pc = "scoring"
  /\ faults < MaxFaults
  /\ faults' = faults + 1
  /\ score' = [score EXCEPT !.pending = Tail(@), !.scored = @ + 1,
                            !.pc = afterScore(Tail(score.pending))]
  /\ UNCHANGED <<fetching, config, scoring, scrapers, health, scraperEnabled, now, jobStore, scoreRows,
                 runRecords, call, runs>>

\* The caller has the count (or the error).
scoreNewJobsEnds ==
  /\ score.pc \in {"returned", "threw"}
  /\ score' = IdleScore
  /\ UNCHANGED <<fetching, config, scoring, scrapers, health, scraperEnabled, now, jobStore, scoreRows,
                 runRecords, call, runs, faults>>

----------------------------------------------------------------------------
(* ScrapersController.runScrapers summary *)

sourcesSucceeded(results) ==
  Cardinality({k \in 1..Len(results) : results[k].success})

sourcesFailed(results) ==
  Cardinality({k \in 1..Len(results) : ~results[k].success})

----------------------------------------------------------------------------
(* buildSearchConfig and the keyword default of scrapeAll.  A string is the *)
(* sequence of its characters.                                              *)

MaxWord == 2

MaxText == 3

MaxRoles == 1

MaxSkills == 1

MaxCustom == 1

topSkills == 5

StringsUpTo(chars, n) == UNION {[1..m -> chars] : m \in 0..n}

\* Keywords as users write them: letters and spaces.
Words == StringsUpTo({" ", "a"}, MaxWord)

\* Stored targetRoles text that is not JSON: letters, spaces and commas.
Texts == StringsUpTo({" ", "a", ","}, MaxText) \ {<<>>}

\* An element of a JSON array held by targetRoles: a string or a number.
RoleItems ==
  {[type |-> "string", value |-> w] : w \in Words}
    \cup {[type |-> "number", value |-> <<>>]}

\* jobTarget: no row ("missing"), targetRoles null, targetRoles a JSON array, some
\* other JSON value, or text that is not JSON.
JobTargets ==
  {[kind |-> k, items |-> <<>>, text |-> <<>>] : k \in {"missing", "null", "json"}}
    \cup {[kind |-> "array", items |-> it, text |-> <<>>] :
            it \in UNION {[1..m -> RoleItems] : m \in 0..MaxRoles}}
    \cup {[kind |-> "text", items |-> <<>>, text |-> t] : t \in Texts}

SkillRows == UNION {[1..m -> Words] : m \in 0..MaxSkills}

\* customConfig: keywords absent, or a list.
CustomConfigs ==
  {[present |-> FALSE, keywords |-> <<>>]}
    \cup {[present |-> TRUE, keywords |-> ks] :
            ks \in UNION {[1..m -> Words] : m \in 0..MaxCustom}}

SoftwareEngineer ==
  <<"s", "o", "f", "t", "w", "a", "r", "e", " ", "e", "n", "g", "i", "n", "e", "e", "r">>

RECURSIVE trimStart(_)
trimStart(str) ==
  IF str # <<>> /\ Head(str) = " " THEN trimStart(Tail(str)) ELSE str

RECURSIVE trimEnd(_)
trimEnd(str) ==
  IF str # <<>> /\ str[Len(str)] = " "
  THEN trimEnd(SubSeq(str, 1, Len(str) - 1)) ELSE str

trim(str) == trimEnd(trimStart(str))

\* str.split(','), cur being the piece read so far.
RECURSIVE split(_, _)
split(str, cur) ==
  IF str = <<>> THEN <<cur>>
  ELSE IF Head(str) = "," THEN <<cur>> \o split(Tail(str), <<>>)
  ELSE split(Tail(str), Append(cur, Head(str)))

asString(w) == [type |-> "string", value |-> w]

\* The values pushed for the target roles: the array's elements as they are, or the
\* trimmed pieces of the comma-separated text.
roleKeywords(jobTarget) ==
  CASE jobTarget.kind = "array" -> jobTarget.items
    [] jobTarget.kind = "text" ->
         LET pieces == split(jobTarget.text, <<>>)
         IN [k \in 1..Len(pieces) |-> asString(trim(pieces[k]))]
    [] OTHER -> <<>>

\* keywords before the filter: roles, then the first five skill names.
pushedKeywords(jobTarget, skills) ==
  LET top == SubSeq(skills, 1, Min(topSkills, Len(skills)))
  IN roleKeywords(jobTarget) \o [k \in 1..Len(top) |-> asString(top[k])]

\* k && k.trim() on a string.
nonBlank(item) == item.value # <<>> /\ trim(item.value) # <<>>

\* k && k.trim() on a (non-zero) number: trim is not a function.
filterThrows(pushed) == \E k \in DOMAIN pushed : pushed[k].type = "number"

filteredKeywords(pushed) ==
  LET kept == SelectSeq(pushed, nonBlank)
  IN [k \in 1..Len(kept) |-> kept[k].value]

\* A scrapeAll that keeps an empty keywords list.
defaultKeywords_none(keywords) == keywords

\* if (!config.keywords.length) config.keywords = ['software engineer']
defaultKeywords(keywords) ==
  IF Len(keywords) = 0 THEN <<SoftwareEngineer>> ELSE keywords

\* scrapeAll is called for a user whose profile rows and overrides are these.
InitConfig ==
  /\ ServiceInit(HealthScrapers)
  /\ fetching = NoFetch
  /\ scoring = NoScoring
  /\ config \in {[pc |-> "start", jobTarget |-> jt, skills |-> sk, custom |-> cc,
                  keywords |-> <<>>] :
                   jt \in JobTargets, sk \in SkillRows, cc \in CustomConfigs}

\* buildSearchConfig returns the base configuration, or throws in its filter.
buildSearchConfig ==
  /\ config.pc = "start"
  /\ LET pushed == pushedKeywords(config.jobTarget, config.skills) IN
       config' = IF filterThrows(pushed)
                 THEN [config EXCEPT !.pc = "threw"]
                 ELSE [config EXCEPT !.pc = "built",
                                     !.keywords = filteredKeywords(pushed)]
  /\ UNCHANGED <<fetching, scoring, scrapers, health, scraperEnabled, now, jobStore,
                 scoreRows, runRecords, call, runs, score, faults>>

\* config = { ...baseConfig, ...customConfig }
mergeCustomConfig ==
  /\ config.pc = "built"
  /\ config' = [config EXCEPT !.pc = "merged",
                              !.keywords = IF config.custom.present
                                           THEN config.custom.keywords ELSE @]
  /\ UNCHANGED <<fetching, scoring, scrapers, health, scraperEnabled, now, jobStore,
                 scoreRows, runRecords, call, runs, score, faults>>

\* The keyword validation of scrapeAll.
validateKeywords ==
  /\ config.pc = "merged"
  /\ config' = [config EXCEPT !.pc = "ready",
                              !.keywords = defaultKeywords(config.keywords)]
  /\ UNCHANGED <<fetching, scoring, scrapers, health, scraperEnabled, now, jobStore,
                 scoreRows, runRecords, call, runs, score, faults>>

\* runScraper hands the configuration to an adapter's scrape().
scrapeWithConfig ==
  /\ config.pc = "ready"
  /\ config' = [config EXCEPT !.pc = "passed"]
  /\ UNCHANGED <<fetching, scoring, scrapers, health, scraperEnabled, now, jobStore,
                 scoreRows, runRecords, call, runs, score, faults>>

NextConfig ==
  \/ buildSearchConfig
  \/ mergeCustomConfig
  \/ validateKeywords
  \/ scrapeWithConfig

SpecConfig == InitConfig /\ [][NextConfig]_vars

----------------------------------------------------------------------------
(* JobScoringService: skill matching.  Strings are character sequences.    *)

lowerCase == <<"a", "b", "c", "d", "e", "f", "g", "h", "i", "j", "k", "l", "m",
               "n", "o", "p", "q", "r", "s", "t", "u", "v", "w", "x", "y", "z">>

upperCase == <<"A", "B", "C", "D", "E", "F", "G", "H", "I", "J", "K", "L", "M",
               "N", "O", "P", "Q", "R", "S", "T", "U", "V", "W", "X", "Y", "Z">>

\* String.prototype.toLowerCase / toUpperCase
toLowerCaseStr(str) ==
  [k \in 1..Len(str) |->
     IF \E i \in DOMAIN upperCase : upperCase[i] = str[k]
     THEN lowerCase[CHOOSE i \in DOMAIN upperCase : upperCase[i] = str[k]]
     ELSE str[k]]

toUpperCaseStr(str) ==
  [k \in 1..Len(str) |->
     IF \E i \in DOMAIN lowerCase : lowerCase[i] = str[k]
     THEN upperCase[CHOOSE i \in DOMAIN lowerCase : lowerCase[i] = str[k]]
     ELSE str[k]]

\* hay.includes(needle)
includes(hay, needle) ==
  \E i \in 0..(Len(hay) - Len(needle)) : SubSeq(hay, i + 1, i + Len(needle)) = needle

\* SKILL_SYNONYMS, in the order of its entries.
SKILL_SYNONYMS == <<
  [canonical |-> <<"j", "a", "v", "a", "s", "c", "r", "i", "p", "t">>,
   synonyms |-> <<<<"j", "s">>,
                 <<"e", "c", "m", "a", "s", "c", "r", "i", "p", "t">>,
                 <<"e", "s", "6">>>>],
  [canonical |-> <<"t", "y", "p", "e", "s", "c", "r", "i", "p", "t">>,
   synonyms |-> <<<<"t", "s">>>>],
  [canonical |-> <<"r", "e", "a", "c", "t">>,
   synonyms |-> <<<<"r", "e", "a", "c", "t", "j", "s">>,
                 <<"r", "e", "a", "c", "t", ".", "j", "s">>>>],
  [canonical |-> <<"n", "o", "d", "e", ".", "j", "s">>,
   synonyms |-> <<<<"n", "o", "d", "e", "j", "s">>,
                 <<"n", "o", "d", "e">>>>],
  [canonical |-> <<"p", "o", "s", "t", "g", "r", "e", "s", "q", "l">>,
   synonyms |-> <<<<"p", "o", "s", "t", "g", "r", "e", "s">>,
                 <<"p", "s", "q", "l">>>>],
  [canonical |-> <<"m", "o", "n", "g", "o", "d", "b">>,
   synonyms |-> <<<<"m", "o", "n", "g", "o">>>>],
  [canonical |-> <<"a", "w", "s">>,
   synonyms |-> <<<<"a", "m", "a", "z", "o", "n", " ", "w", "e", "b", " ", "s", "e", "r", "v", "i", "c", "e", "s">>>>],
  [canonical |-> <<"g", "c", "p">>,
   synonyms |-> <<<<"g", "o", "o", "g", "l", "e", " ", "c", "l", "o", "u", "d">>,
                 <<"g", "o", "o", "g", "l", "e", " ", "c", "l", "o", "u", "d", " ", "p", "l", "a", "t", "f", "o", "r", "m">>>>],
  [canonical |-> <<"k", "u", "b", "e", "r", "n", "e", "t", "e", "s">>,
   synonyms |-> <<<<"k", "8", "s">>>>],
  [canonical |-> <<"m", "a", "c", "h", "i", "n", "e", " ", "l", "e", "a", "r", "n", "i", "n", "g">>,
   synonyms |-> <<<<"m", "l">>>>],
  [canonical |-> <<"a", "r", "t", "i", "f", "i", "c", "i", "a", "l", " ", "i", "n", "t", "e", "l", "l", "i", "g", "e", "n", "c", "e">>,
   synonyms |-> <<<<"a", "i">>>>],
  [canonical |-> <<"c", "i", "/", "c", "d">>,
   synonyms |-> <<<<"c", "i", "c", "d">>,
                 <<"c", "o", "n", "t", "i", "n", "u", "o", "u", "s", " ", "i", "n", "t", "e", "g", "r", "a", "t", "i", "o", "n">>>>] >>


\* Names every object inherits from Object.prototype that are written in lower
\* case: SKILL_SYNONYMS[name] is not undefined for them, and not an array.
inheritedKeys == {<<"c", "o", "n", "s", "t", "r", "u", "c", "t", "o", "r">>,
                  <<"_", "_", "p", "r", "o", "t", "o", "_", "_">>}

Min3(a, b, c) == Min(a, Min(b, c))

\* matrix[i][j], given row i - 1 (prev) and the cells 0..j-1 of row i (acc).
levCell(a, b, i, prev, acc) ==
  LET j == Len(acc) IN
    IF b[i] = a[j] THEN prev[j]
    ELSE Min3(prev[j] + 1, acc[j] + 1, prev[j + 1] + 1)

\* The next n cells of row i appended to acc, left to right: the first half is
\* computed before the second is started.
RECURSIVE levRow(_, _, _, _, _, _)
levRow(a, b, i, prev, acc, n) ==
  IF n = 0 THEN acc
  ELSE IF n = 1 THEN Append(acc, levCell(a, b, i, prev, acc))
  ELSE LET first == levRow(a, b, i, prev, acc, n \div 2)
       IN IF Len(first) > 0 THEN levRow(a, b, i, prev, first, n - n \div 2)
          ELSE first

\* Rows i..i+n-1 computed in order from row i - 1 (prev); the last one.
RECURSIVE levRows(_, _, _, _, _)
levRows(a, b, i, prev, n) ==
  IF n = 0 THEN prev
  ELSE IF n = 1 THEN levRow(a, b, i, prev, <<i>>, Len(a))
  ELSE LET first == levRows(a, b, i, prev, n \div 2)
       IN IF Len(first) > 0 THEN levRows(a, b, i + n \div 2, first, n - n \div 2)
          ELSE first

levenshteinDistance(a, b) ==
  IF Len(a) = 0 THEN Len(b)
  ELSE IF Len(b) = 0 THEN Len(a)
  ELSE levRows(a, b, 1, [j \in 1..(Len(a) + 1) |-> j - 1], Len(b))[Len(a) + 1]

\* A normalisation that only lower-cases and trims.
normalizeSkill_noSynonyms(skill) == trim(toLowerCaseStr(skill))

normalizeSkill(skill) ==
  LET lower == trim(toLowerCaseStr(skill))
      hits == {i \in DOMAIN SKILL_SYNONYMS :
                 \/ lower = SKILL_SYNONYMS[i].canonical
                 \/ lower \in Range(SKILL_SYNONYMS[i].synonyms)}
  IN IF hits = {} THEN lower
     ELSE SKILL_SYNONYMS[CHOOSE i \in hits : \A j \in hits : i <= j].canonical

\* SKILL_SYNONYMS[skill] || [] for an own key or an absent one.
synonymsOf(skill) ==
  LET own == {i \in DOMAIN SKILL_SYNONYMS : SKILL_SYNONYMS[i].canonical = skill}
  IN IF own = {} THEN <<>> ELSE SKILL_SYNONYMS[CHOOSE i \in own : TRUE].synonyms

\* for (const syn of synonyms) on an inherited, non-iterable value: TypeError.
skillMatchesThrows(skill, userSkills) ==
  skill \notin Range(userSkills) /\ skill \in inheritedKeys

skillMatches(skill, userSkills) ==
  \/ skill \in Range(userSkills)
  \/ \E syn \in Range(synonymsOf(skill)) : syn \in Range(userSkills)
  \/ \E userSkill \in Range(userSkills) :
       \/ includes(userSkill, skill)
       \/ includes(skill, userSkill)
       \/ levenshteinDistance(skill, userSkill) <= 2

nonEmpty(str) == Len(str) > 0

\* split(',').map(trim).filter(length > 0)
commaSeparated(text) ==
  LET pieces == split(text, <<>>)
  IN SelectSeq([k \in 1..Len(pieces) |-> trim(pieces[k])], nonEmpty)

\* parseSkillsString on the stored skillsRequired: null or blank, a JSON array of
\* strings, a JSON string, another JSON value, or text that is not JSON.
parseSkillsString(skills) ==
  CASE skills.kind = "array" ->
         SelectSeq([k \in 1..Len(skills.items) |-> trim(skills.items[k])], nonEmpty)
    [] skills.kind \in {"string", "text"} -> commaSeparated(skills.text)
    [] OTHER -> <<>>

\* Math.round of the non-negative fraction p / q.
round(p, q) == (2 * p + q) \div (2 * q)

RECURSIVE matchLoop(_, _, _, _)
matchLoop(required, userSkillNames, matched, missing) ==
  IF required = <<>> THEN [matchedSkills |-> matched, missingSkills |-> missing]
  ELSE IF skillMatches(normalizeSkill(Head(required)), userSkillNames)
  THEN matchLoop(Tail(required), userSkillNames, Append(matched, Head(required)), missing)
  ELSE matchLoop(Tail(required), userSkillNames, matched, Append(missing, Head(required)))

calculateSkillMatchThrows(skills, userSkills) ==
  LET requiredSkills == parseSkillsString(skills)
      userSkillNames == [k \in 1..Len(userSkills) |-> normalizeSkill(userSkills[k])]
  IN \E k \in DOMAIN requiredSkills :
       skillMatchesThrows(normalizeSkill(requiredSkills[k]), userSkillNames)

calculateSkillMatch(skills, userSkills) ==
  LET requiredSkills == parseSkillsString(skills)
      userSkillNames == [k \in 1..Len(userSkills) |-> normalizeSkill(userSkills[k])]
      lists == matchLoop(requiredSkills, userSkillNames, <<>>, <<>>)
  IN IF Len(requiredSkills) = 0
     THEN [score |-> 75, matchedSkills |-> <<>>, missingSkills |-> <<>>]
     ELSE [score |-> round(100 * Len(lists.matchedSkills), Len(requiredSkills)),
           matchedSkills |-> lists.matchedSkills,
           missingSkills |-> lists.missingSkills]

----------------------------------------------------------------------------
(* calculateSkillMatch over required-skill fields and user skill rows *)

MaxRequired == 2

MaxUserSkills == 1

Python == <<"P", "y", "t", "h", "o", "n">>

Django == <<"D", "j", "a", "n", "g", "o">>

JS == <<"J", "S">>

JavaScript == <<"J", "a", "v", "a", "S", "c", "r", "i", "p", "t">>

\* Skill names as postings and users write them.
SkillNames ==
  {Python, Django, JS, JavaScript,
   <<"c", "o", "n", "s", "t", "r", "u", "c", "t", "o", "r">>, <<" ">>}

\* Every name of the synonym table, as listed, in upper case, and padded.
TableNames ==
  UNION {{SKILL_SYNONYMS[i].canonical} \cup Range(SKILL_SYNONYMS[i].synonyms) :
           i \in DOMAIN SKILL_SYNONYMS}

Spellings(name) == {name, toUpperCaseStr(name), <<" ">> \o name \o <<" ">>}

TableSpellings == UNION {Spellings(name) : name \in TableNames}

\* items.join(',')
RECURSIVE joinComma(_)
joinComma(items) ==
  IF items = <<>> THEN <<>>
  ELSE IF Len(items) = 1 THEN Head(items)
  ELSE Head(items) \o <<",">> \o joinComma(Tail(items))

\* The stored forms of a required-skill list.
StoredSkills(items) ==
  {[kind |-> "array", items |-> items, text |-> <<>>]}
    \cup {[kind |-> k, items |-> <<>>, text |-> joinComma(items)] :
            k \in IF \A c \in Range(joinComma(items)) : c = " "
                  THEN {} ELSE {"string", "text"}}

SkillInputs ==
  {[skillsRequired |-> sr, userSkills |-> us] :
     sr \in {[kind |-> k, items |-> <<>>, text |-> <<>>] : k \in {"null", "json"}}
              \cup UNION {StoredSkills(items) :
                            items \in UNION {[1..m -> SkillNames] : m \in 0..MaxRequired}},
     us \in UNION {[1..m -> SkillNames] : m \in 0..MaxUserSkills}}
  \cup
  {[skillsRequired |-> [kind |-> "array", items |-> <<r>>, text |-> <<>>],
    userSkills |-> <<u>>] : r \in TableSpellings, u \in TableSpellings}

\* calculateSkillMatch is called for a job and a user's skill rows.
InitSkill ==
  /\ ServiceInit(HealthScrapers)
  /\ fetching = NoFetch
  /\ config = NoConfig
  /\ scoring \in {[pc |-> "skills", skillsRequired |-> in.skillsRequired,
                   userSkills |-> in.userSkills,
                   skillScore |-> [score |-> 0, matchedSkills |-> <<>>,
                                   missingSkills |-> <<>>]] : in \in SkillInputs}

calculateSkillMatchReturns ==
  /\ scoring.pc = "skills"
  /\ ~calculateSkillMatchThrows(scoring.skillsRequired, scoring.userSkills)
  /\ scoring' = [scoring EXCEPT
                   !.pc = "matched",
                   !.skillScore = calculateSkillMatch(scoring.skillsRequired,
                                                      scoring.userSkills)]
  /\ UNCHANGED <<fetching, config, scrapers, health, scraperEnabled, now, jobStore,
                 scoreRows, runRecords, call, runs, score, faults>>

calculateSkillMatchFails ==
  /\ scoring.pc = "skills"
  /\ calculateSkillMatchThrows(scoring.skillsRequired, scoring.userSkills)
  /\ scoring' = [scoring EXCEPT !.pc = "threw"]
  /\ UNCHANGED <<fetching, config, scrapers, health, scraperEnabled, now, jobStore,
                 scoreRows, runRecords, call, runs, score, faults>>

NextSkill == calculateSkillMatchReturns \/ calculateSkillMatchFails

SpecSkill == InitSkill /\ [][NextSkill]_vars

----------------------------------------------------------------------------
(* JobScoringService.scoreJob: component scores, overall score, fallback *)

\* Scores are exact fractions n / d with d > 0.
Q(n, d) == [n |-> n, d |-> d]

Whole(n) == Q(n, 1)

\* JavaScript truthiness of a nullable Int column: null and 0 are falsy.
falsy(x) == x = None \/ x = 0

Max(a, b) == IF a >= b THEN a ELSE b

\* const semanticScore = { score: 70 }
semanticScore == 70

\* Sum of the positive month counts of the rows that have a start date.
RECURSIVE totalMonths(_)
totalMonths(experiences) ==
  IF experiences = <<>> THEN 0
  ELSE LET exp == Head(experiences)
       IN (IF exp.startDate /\ exp.months > 0 THEN exp.months ELSE 0)
            + totalMonths(Tail(experiences))

\* calculateTotalYears, in tenths of a year: Math.round(months / 12 * 10) / 10.
calculateTotalYears(experiences) == round(10 * totalMonths(experiences), 12)

\* calculateExperienceMatch; tenths is the user's total in tenths of a year.
calculateExperienceMatch(job, experiences) ==
  LET tenths == calculateTotalYears(experiences)
      min == IF falsy(job.experienceMin) THEN 0 ELSE job.experienceMin
      unbounded == falsy(job.experienceMax)
      max == job.experienceMax
  IN IF falsy(job.experienceMin) /\ falsy(job.experienceMax)
     THEN [score |-> Whole(80), analysis |-> "No experience requirement specified"]
     ELSE IF tenths >= 10 * min /\ (unbounded \/ tenths <= 10 * max)
     THEN [score |-> Whole(100), analysis |-> "Your years matches the requirement"]
     ELSE IF tenths < 10 * min
     THEN [score |-> Q(Max(0, 200 - 3 * (10 * min - tenths)), 2),
           analysis |-> "You have fewer years than required"]
     ELSE [score |-> Q(Max(120, 200 - (tenths - 10 * max)), 2),
           analysis |-> "You have years which exceeds the max"]

\* calculateSalaryMatch; targets is NoTargets for a user without a target row.
calculateSalaryMatch_noFloor(job, targets) ==
  IF falsy(job.salaryMin) /\ falsy(job.salaryMax)
  THEN [score |-> Whole(70), analysis |-> "Salary not disclosed"]
  ELSE IF targets.row = FALSE \/ falsy(targets.minSalary)
  THEN [score |-> Whole(80), analysis |-> "No salary preference set"]
  ELSE IF ~falsy(job.salaryMax) /\ job.salaryMax < targets.minSalary
  THEN [score |-> Q(100 * job.salaryMax, targets.minSalary),
        analysis |-> "Max salary is below your minimum expectation"]
  ELSE IF /\ ~falsy(job.salaryMin)
          /\ ~falsy(targets.maxSalary)
          /\ job.salaryMin > targets.maxSalary
  THEN [score |-> Whole(95), analysis |-> "Salary exceeds your target range"]
  ELSE [score |-> Whole(85), analysis |-> "Salary range aligns with your target"]

calculateSalaryMatch(job, targets) ==
  IF falsy(job.salaryMin) /\ falsy(job.salaryMax)
  THEN [score |-> Whole(70), analysis |-> "Salary not disclosed"]
  ELSE IF targets.row = FALSE \/ falsy(targets.minSalary)
  THEN [score |-> Whole(80), analysis |-> "No salary preference set"]
  ELSE IF ~falsy(job.salaryMax) /\ job.salaryMax < targets.minSalary
  THEN [score |-> Q(Max(0, 100 * job.salaryMax), targets.minSalary),
        analysis |-> "Max salary is below your minimum expectation"]
  ELSE IF /\ ~falsy(job.salaryMin)
          /\ ~falsy(targets.maxSalary)
          /\ job.salaryMin > targets.maxSalary
  THEN [score |-> Whole(95), analysis |-> "Salary exceeds your target range"]
  ELSE [score |-> Whole(85), analysis |-> "Salary range aligns with your target"]

parseLocationsString(locations) == parseSkillsString(locations)

\* !targets?.preferredLocations: no row, null or the empty string.
noPreferredLocations(targets) ==
  \/ targets.row = FALSE
  \/ targets.preferredLocations.kind = "null"

calculateLocationMatch(job, targets) ==
  IF targets.row /\ targets.remotePreference = "remote"
  THEN IF job.isRemote
       THEN [score |-> Whole(100), analysis |-> "Remote position matches your preference"]
       ELSE [score |-> Whole(30), analysis |-> "Not remote, but you prefer remote work"]
  ELSE IF targets.row /\ targets.remotePreference = "any"
  THEN [score |-> Whole(90), analysis |-> "You are flexible on location"]
  ELSE IF noPreferredLocations(targets)
  THEN [score |-> Whole(80), analysis |-> "No location preference set"]
  ELSE LET preferredLocations == parseLocationsString(targets.preferredLocations)
           jobLocation == toLowerCaseStr(job.location)
       IN IF Len(preferredLocations) = 0
          THEN [score |-> Whole(80), analysis |-> "No location preference set"]
          ELSE IF \E k \in DOMAIN preferredLocations :
                    includes(jobLocation, toLowerCaseStr(preferredLocations[k]))
          THEN [score |-> Whole(100), analysis |-> "Location matches your preferences"]
          ELSE [score |-> Whole(40), analysis |-> "Location not in your preferred locations"]

\* Math.round(semantic * 0.3 + skill * 0.3 + experience * 0.2 + salary * 0.1
\* + location * 0.1) over exact fractions: the sum is num / den.
weightedOverall(semantic, skill, experience, salary, location) ==
  LET den == 10 * semantic.d * skill.d * experience.d * salary.d * location.d
      num == 3 * semantic.n * (den \div (10 * semantic.d))
               + 3 * skill.n * (den \div (10 * skill.d))
               + 2 * experience.n * (den \div (10 * experience.d))
               + salary.n * (den \div (10 * salary.d))
               + location.n * (den \div (10 * location.d))
  IN (2 * num + den) \div (2 * den)

\* score >= k and score < k on a fraction.
atLeast(value, k) == value.n >= k * value.d

\* The pros and cons scoreJob compiles from the component scores.
prosOf(skillScore, experienceScore, salaryScore, locationScore) ==
  (IF atLeast(Whole(skillScore.score), 70)
   THEN <<ToString(Len(skillScore.matchedSkills)) \o " skills match">> ELSE <<>>)
  \o (IF atLeast(experienceScore.score, 80)
      THEN <<"Experience level matches well">> ELSE <<>>)
  \o (IF atLeast(salaryScore.score, 80) THEN <<"Salary range aligns">> ELSE <<>>)
  \o (IF atLeast(locationScore.score, 80)
      THEN <<"Location/remote preference matches">> ELSE <<>>)

consOf(skillScore, experienceScore, salaryScore) ==
  (IF ~atLeast(Whole(skillScore.score), 70) /\ Len(skillScore.missingSkills) > 0
   THEN <<"Missing " \o ToString(Len(skillScore.missingSkills)) \o " skills">>
   ELSE <<>>)
  \o (IF ~atLeast(experienceScore.score, 80) /\ ~atLeast(experienceScore.score, 50)
      THEN <<"Experience level mismatch">> ELSE <<>>)
  \o (IF ~atLeast(salaryScore.score, 80) /\ ~atLeast(salaryScore.score, 50)
      THEN <<"Salary below expectations">> ELSE <<>>)

\* The result scoreJob returns (and the row it upserts) on the normal path.
scoreResult(job, skills, targets, experiences) ==
  LET skillScore == calculateSkillMatch(job.skillsRequired, skills)
      experienceScore == calculateExperienceMatch(job, experiences)
      salaryScore == calculateSalaryMatch(job, targets)
      locationScore == calculateLocationMatch(job, targets)
  IN [overallScore |-> weightedOverall(Whole(semanticScore), Whole(skillScore.score),
                                       experienceScore.score, salaryScore.score,
                                       locationScore.score),
      semanticScore |-> Whole(semanticScore),
      skillMatchScore |-> Whole(skillScore.score),
      experienceMatchScore |-> experienceScore.score,
      salaryMatchScore |-> salaryScore.score,
      locationMatchScore |-> locationScore.score,
      matchedSkills |-> skillScore.matchedSkills,
      missingSkills |-> skillScore.missingSkills,
      breakdown |-> [experienceAnalysis |-> experienceScore.analysis,
                     salaryAnalysis |-> salaryScore.analysis,
                     locationAnalysis |-> locationScore.analysis,
                     pros |-> prosOf(skillScore, experienceScore, salaryScore,
                                     locationScore),
                     cons |-> consOf(skillScore, experienceScore, salaryScore)]]

\* No result yet.
NoResult ==
  [overallScore |-> 0,
   semanticScore |-> Whole(semanticScore),
   skillMatchScore |-> Whole(0),
   experienceMatchScore |-> Whole(0),
   salaryMatchScore |-> Whole(0),
   locationMatchScore |-> Whole(0),
   matchedSkills |-> <<>>,
   missingSkills |-> <<>>,
   breakdown |-> [experienceAnalysis |-> "Unable to analyze",
                  salaryAnalysis |-> "Unable to analyze",
                  locationAnalysis |-> "Unable to analyze",
                  pros |-> <<>>,
                  cons |-> <<>>]]

\* The catch block's result.
fallbackResult ==
  [overallScore |-> 50,
   semanticScore |-> Whole(50),
   skillMatchScore |-> Whole(50),
   experienceMatchScore |-> Whole(50),
   salaryMatchScore |-> Whole(50),
   locationMatchScore |-> Whole(50),
   matchedSkills |-> <<>>,
   missingSkills |-> <<>>,
   breakdown |-> [experienceAnalysis |-> "Unable to analyze",
                  salaryAnalysis |-> "Unable to analyze",
                  locationAnalysis |-> "Unable to analyze",
                  pros |-> <<>>,
                  cons |-> <<"Error occurred during scoring">>]]

----------------------------------------------------------------------------
(* scoreJob over jobs and profiles *)

NullField == [kind |-> "null", items |-> <<>>, text |-> <<>>]

Berlin == <<"B", "e", "r", "l", "i", "n">>

\* Stored job rows: nullable Int columns hold None, 0 or any other integer.
ScoredJobs ==
  [skillsRequired :
     {NullField, [kind |-> "array", items |-> <<Python, Django>>, text |-> <<>>],
      [kind |-> "array",
       items |-> <<<<"c", "o", "n", "s", "t", "r", "u", "c", "t", "o", "r">>>>,
       text |-> <<>>]},
   experienceMin : {None, 0, 3},
   experienceMax : {None, 5},
   salaryMin : {None, 0, 150},
   salaryMax : {None, 0, -10, 30, 200},
   isRemote : BOOLEAN,
   location : {<<>>, Berlin \o <<",">> \o <<" ">> \o <<"D", "E">>}]

NoTargets ==
  [row |-> FALSE, minSalary |-> None, maxSalary |-> None,
   remotePreference |-> "", preferredLocations |-> NullField]

\* Job target rows as updateJobTargets stores them: salaries are null or >= 0.
TargetRows ==
  {NoTargets}
    \cup [row : {TRUE}, minSalary : {None, 0, 50}, maxSalary : {None, 0, 100},
          remotePreference : {"remote", "any", "onsite"},
          preferredLocations :
            {NullField, [kind |-> "array", items |-> <<Berlin>>, text |-> <<>>]}]

ExperienceRows ==
  {<<>>,
   <<[startDate |-> TRUE, months |-> 31]>>,
   <<[startDate |-> TRUE, months |-> 150], [startDate |-> TRUE, months |-> -5],
     [startDate |-> FALSE, months |-> 0]>>}

UserSkillRows == {<<>>, <<Python>>}

\* scoreJob(userId, job) is called; the profile rows are in the database.
\* error is the error the catch block logs, threw whether one left scoreJob.
InitScore ==
  /\ ServiceInit(HealthScrapers)
  /\ fetching = NoFetch
  /\ config = NoConfig
  /\ scoring \in [pc : {"scoreJob"}, job : ScoredJobs, skills : UserSkillRows,
                  targets : TargetRows, experiences : ExperienceRows,
                  threw : {FALSE}, saved : {FALSE}, error : {"none"},
                  result : {NoResult}]

\* The three profile reads resolve.
readProfile ==
  /\ scoring.pc = "scoreJob"
  /\ scoring' = [scoring EXCEPT !.pc = "read"]
  /\ UNCHANGED <<fetching, config, scrapers, health, scraperEnabled, now, jobStore,
                 scoreRows, runRecords, call, runs, score, faults>>

\* One of the profile reads rejects: the catch block returns the fallback.
readProfileFails ==
  /\ scoring.pc = "scoreJob"
  /\ scoring' = [scoring EXCEPT !.pc = "returned", !.error = "profile",
                                !.result = fallbackResult]
  /\ UNCHANGED <<fetching, config, scrapers, health, scraperEnabled, now, jobStore,
                 scoreRows, runRecords, call, runs, score, faults>>

\* The components, the overall score and the pros and cons are computed.
computeScores ==
  /\ scoring.pc = "read"
  /\ ~calculateSkillMatchThrows(scoring.job.skillsRequired, scoring.skills)
  /\ scoring' = [scoring EXCEPT
                   !.pc = "computed",
                   !.result = scoreResult(scoring.job, scoring.skills,
                                          scoring.targets, scoring.experiences)]
  /\ UNCHANGED <<fetching, config, scrapers, health, scraperEnabled, now, jobStore,
                 scoreRows, runRecords, call, runs, score, faults>>

\* A component throws: the catch block returns the fallback.
computeScoresFails ==
  /\ scoring.pc = "read"
  /\ calculateSkillMatchThrows(scoring.job.skillsRequired, scoring.skills)
  /\ scoring' = [scoring EXCEPT !.pc = "returned", !.error = "component",
                                !.result = fallbackResult]
  /\ UNCHANGED <<fetching, config, scrapers, health, scraperEnabled, now, jobStore,
                 scoreRows, runRecords, call, runs, score, faults>>

\* jobScore.upsert resolves and scoreJob returns the computed result.
upsertScore ==
  /\ scoring.pc = "computed"
  /\ scoring' = [scoring EXCEPT !.pc = "returned", !.saved = TRUE]
  /\ UNCHANGED <<fetching, config, scrapers, health, scraperEnabled, now, jobStore,
                 scoreRows, runRecords, call, runs, score, faults>>

\* jobScore.upsert rejects and the error leaves scoreJob.
upsertScoreFails_rethrows ==
  /\ scoring.pc = "computed"
  /\ scoring' = [scoring EXCEPT !.pc = "returned", !.error = "upsert",
                                !.threw = TRUE]
  /\ UNCHANGED <<fetching, config, scrapers, health, scraperEnabled, now, jobStore,
                 scoreRows, runRecords, call, runs, score, faults>>

\* jobScore.upsert rejects: the catch block returns the fallback.
upsertScoreFails ==
  /\ scoring.pc = "computed"
  /\ scoring' = [scoring EXCEPT !.pc = "returned", !.error = "upsert",
                                !.result = fallbackResult]
  /\ UNCHANGED <<fetching, config, scrapers, health, scraperEnabled, now, jobStore,
                 scoreRows, runRecords, call, runs, score, faults>>

NextScore ==
  \/ readProfile
  \/ readProfileFails
  \/ computeScores
  \/ computeScoresFails
  \/ upsertScore
  \/ upsertScoreFails

SpecScore == InitScore /\ [][NextScore]_vars

----------------------------------------------------------------------------
(* BaseScraper.fetchWithRetry *)

retryCount == 3

retryDelay == 5000

\* What one fetch attempt can see: an ok response, a rate-limit response (with
\* no Retry-After header, one in seconds, or one parseInt cannot read), a
\* server error, a client error, the abort after the timeout, a network error.
Outcomes ==
  {"200", "429", "429 Retry-After: 2", "429 Retry-After: date", "503", "404",
   "AbortError", "TypeError"}

Ms(n) == [nan |-> FALSE, ms |-> n]

\* retryAfter ? parseInt(retryAfter, 10) * 1000 : this.retryDelay * attempt
waitTime(outcome, attempt) ==
  CASE outcome = "429 Retry-After: 2" -> Ms(2 * 1000)
    [] outcome = "429 Retry-After: date" -> [nan |-> TRUE, ms |-> 0]
    [] OTHER -> Ms(retryDelay * attempt)

\* The error the catch block keeps for what was thrown inside the try block.
caughtError(outcome) ==
  CASE outcome = "AbortError" -> "Request timeout"
    [] outcome = "TypeError" -> "fetch failed"
    [] OTHER -> "Request failed: " \o outcome

\* The loop is left: throw lastError || new Error('All retry attempts failed').
thrownAfterLoop(lastError) ==
  IF lastError = "null" THEN "All retry attempts failed" ELSE lastError

\* fetchWithRetry(url) is called: the first attempt is issued.
InitFetch ==
  /\ ServiceInit(HealthScrapers)
  /\ config = NoConfig
  /\ scoring = NoScoring
  /\ fetching = [pc |-> "fetch", attempt |-> 1, lastError |-> "null",
                 seen |-> <<>>, waited |-> <<>>, error |-> "null"]

\* A loop that allows one attempt more than retryCount.
nextAttempt_oneMore(f) ==
  IF f.attempt + 1 <= retryCount + 1
  THEN [f EXCEPT !.pc = "fetch", !.attempt = f.attempt + 1]
  ELSE [f EXCEPT !.pc = "threw", !.attempt = f.attempt + 1,
                 !.error = thrownAfterLoop(f.lastError)]

\* After a delay or a catch without delay: the next iteration, or the throw
\* that follows the loop.
nextAttempt(f) ==
  IF f.attempt + 1 <= retryCount
  THEN [f EXCEPT !.pc = "fetch", !.attempt = f.attempt + 1]
  ELSE [f EXCEPT !.pc = "threw", !.attempt = f.attempt + 1,
                 !.error = thrownAfterLoop(f.lastError)]

\* The body of one iteration once the fetch has settled with `outcome`: return,
\* a delay before continue, or the catch block (which the client-error throw
\* of the try block reaches as well).
afterFetch(f, outcome) ==
  LET g == [f EXCEPT !.seen = Append(f.seen, outcome)] IN
  CASE outcome = "200" -> [g EXCEPT !.pc = "returned"]
    [] outcome \in {"429", "429 Retry-After: 2", "429 Retry-After: date"} ->
         [g EXCEPT !.pc = "delay",
                   !.waited = Append(g.waited, waitTime(outcome, g.attempt))]
    [] outcome = "503" ->
         [g EXCEPT !.pc = "delay", !.lastError = "Server error: 503",
                   !.waited = Append(g.waited, Ms(retryDelay * g.attempt))]
    [] OTHER ->
         LET h == [g EXCEPT !.lastError = caughtError(outcome)] IN
         IF h.attempt < retryCount
         THEN [h EXCEPT !.pc = "delay",
                        !.waited = Append(h.waited, Ms(retryDelay * h.attempt))]
         ELSE nextAttempt(h)

\* The fetch of the current attempt settles (a response, the abort, an error).
fetchSettles(outcome) ==
  /\ fetching.pc = "fetch"
  /\ fetching' = afterFetch(fetching, outcome)
  /\ UNCHANGED <<config, scoring, scrapers, health, scraperEnabled, now, jobStore,
                 scoreRows, runRecords, call, runs, score, faults>>

\* The timer of this.delay fires.
delayEnds ==
  /\ fetching.pc = "delay"
  /\ fetching' = nextAttempt(fetching)
  /\ UNCHANGED <<config, scoring, scrapers, health, scraperEnabled, now, jobStore,
                 scoreRows, runRecords, call, runs, score, faults>>

NextFetch ==
  \/ \E outcome \in Outcomes : fetchSettles(outcome)
  \/ delayEnds

SpecFetch == InitFetch /\ [][NextFetch]_vars

\* Every fetch settles (the abort timer bounds it) and every delay timer fires.
SpecFetchLive == SpecFetch /\ WF_vars(NextFetch)

----------------------------------------------------------------------------
(* Specifications *)

ScoreLimits == {1, defaultScoreLimit}

\* The steps of the runs in flight, with the record lists adapters return.
RunStep(lists) ==
  \/ \E r \in InFlight : runCreate(r)
  \/ \E r \in InFlight : runCreateFails(r)
  \/ \E r \in InFlight : \E jobs \in lists : scrapeReturns(r, jobs)
  \/ \E r \in InFlight : scrapeThrows(r)
  \/ \E r \in InFlight : runSucceeds(r)
  \/ \E r \in InFlight : runSuccessUpdateFails(r)
  \/ \E r \in InFlight : runFails(r)
  \/ \E r \in InFlight : runFailedUpdateFails(r)
  \/ batchResolves
  \/ batchRejects
  \/ scrapeAllEnds

\* The steps of processJob.
JobStep ==
  \/ \E r \in InFlight : jobFind(r)
  \/ \E r \in InFlight : jobUpsert(r)
  \/ \E r \in InFlight : jobFails(r)

\* Spec: the health tracker over several calls; the portals list no posting.
Next ==
  \/ (Quiescent /\ call.n < MaxCalls /\ \E srcs \in Requests : scrapeAll(srcs))
  \/ (Quiescent /\ call.n < MaxCalls
        /\ \E srcs \in Requests : scrapeAllConfigFails(srcs))
  \/ RunStep({<<>>})
  \/ (Quiescent /\ \E s \in Sources : \E e \in BOOLEAN : setSourceEnabled(s, e))
  \/ (Quiescent /\ \E s \in Sources : unblockSource(s))
  \/ (Quiescent /\ Tick)

Spec == Init /\ [][Next]_vars

\* SpecOperator: the health tracker with the operator's requests, for known and
\* unknown names, arriving at any moment of a call; the persistence gateway
\* raises no error.
OperatorRequests == {<<>>, <<"indeed", "indeed">>}

NextOperator ==
  \/ (Quiescent /\ call.n < MaxCalls
        /\ \E srcs \in OperatorRequests : scrapeAll(srcs))
  \/ \E r \in InFlight : runCreate(r)
  \/ \E r \in InFlight : scrapeReturns(r, <<>>)
  \/ \E r \in InFlight : scrapeThrows(r)
  \/ \E r \in InFlight : runSucceeds(r)
  \/ \E r \in InFlight : runFails(r)
  \/ batchResolves
  \/ scrapeAllEnds
  \/ (\E s \in RequestNames : \E e \in BOOLEAN : setSourceEnabled(s, e))
  \/ (\E s \in RequestNames : unblockSource(s))
  \/ (Quiescent /\ Tick)

SpecOperator == Init /\ [][NextOperator]_vars

\* SpecBatch: the first call of the service, and the scoring of its jobs.
NextBatch ==
  \/ (Quiescent /\ call.n = 0 /\ \E srcs \in BatchRequests : scrapeAll(srcs))
  \/ (Quiescent /\ call.n = 0
        /\ \E srcs \in BatchRequests : scrapeAllConfigFails(srcs))
  \/ RunStep(JobLists)
  \/ JobStep
  \/ (Quiescent /\ \E limit \in ScoreLimits : scoreNewJobs(limit))
  \/ (Quiescent /\ \E limit \in ScoreLimits : scoreNewJobsFindFails(limit))
  \/ scoreJobPersists
  \/ scoreJobFallsBack
  \/ scoreNewJobsEnds

SpecBatch == InitBatch /\ [][NextBatch]_vars

----------------------------------------------------------------------------
(* Properties *)

\* The step on which scrapeAll selects its candidates.
Selecting == call.pc = "idle" /\ call'.pc \in {"running", "returned"}

\* The block window of s is still open at the present instant.
WindowOpen(s) == health[s].blockedAt = None \/ now - health[s].blockedAt < blockDuration

\* The availability of s is checked by the selection of a request for srcs.
Checked(s, srcs) ==
  IF srcs = <<>> THEN scraperEnabled[s] ELSE s \in Range(srcs)

\* C1: a source is blocked by its third consecutive failure and is then skipped by
\* every scrapeAll call until 24h have passed since blockedAt or unblockSource is
\* called; after one or two consecutive failures it is still scheduled.
\* As steps: (a) a failure that makes the count 3 blocks, one that makes it 1 or 2
\* does not; (b) a selection skips a blocked source whose window is open;
\* (c) a blocked source stays blocked except by unblockSource or by a selection
\* that finds its window elapsed; (d) an enabled, unblocked source with one or two
\* failures is scheduled by a selection that asks for it.
C1_BlockedUntilExpiryOrUnblock ==
  [][\A s \in Sources :
       /\ \A r \in DOMAIN runs :
            (runFails(r) /\ runs[r].source = s /\ ~health[s].isBlocked) =>
              (health'[s].isBlocked <=>
                 health[s].consecutiveFailures + 1 = maxConsecutiveFailures)
       /\ (Selecting /\ health[s].isBlocked /\ WindowOpen(s)) =>
            s \notin Range(call'.toRun)
       /\ (health[s].isBlocked /\ ~health'[s].isBlocked) =>
            (unblockSource(s) \/ (Selecting /\ ~WindowOpen(s)))
       /\ (Selecting /\ Checked(s, call'.sources) /\ health[s].enabled
             /\ ~health[s].isBlocked /\ health[s].consecutiveFailures \in {1, 2}) =>
            s \in Range(call'.toRun)
  ]_vars

Threw == {k \in DOMAIN runs : runs[k].threw}

\* C2: with no persistence error, a scrapeAll call that schedules n adapters of
\* which k throw from scrape() returns (never throws) with exactly n results in
\* candidate order; every adapter that did not throw reports success with the
\* number of records it returned and the counts of its own run; the summary has
\* sourcesFailed = k and sourcesSucceeded = n - k.
C2_FailuresStayLocal ==
  (faults = 0 /\ call.pc \in {"returned", "threw"}) =>
    /\ call.pc = "returned"
    /\ Len(call.results) = Len(call.toRun)
    /\ DOMAIN runs = DOMAIN call.results
    /\ \A k \in DOMAIN call.results :
         /\ call.results[k].source = call.toRun[k]
         /\ call.results[k].success = ~runs[k].threw
         /\ ~runs[k].threw =>
              /\ call.results[k].jobsFound = runs[k].found
              /\ call.results[k].jobsNew = runs[k].jobsNew
              /\ call.results[k].jobsUpdated = runs[k].jobsUpdated
              /\ runs[k].jobsNew + runs[k].jobsUpdated = runs[k].found
    /\ sourcesFailed(call.results) = Cardinality(Threw)
    /\ sourcesSucceeded(call.results) = Len(call.toRun) - Cardinality(Threw)

\* One of three concurrently run adapters threw; the other two found records.
C2_Witness ==
  /\ faults = 0
  /\ call.pc = "returned"
  /\ call.sources = <<>>
  /\ Len(call.toRun) = 3
  /\ Cardinality(Threw) = 1
  /\ sourcesFailed(call.results) = 1
  /\ sourcesSucceeded(call.results) = 2
  /\ \A k \in DOMAIN runs : ~runs[k].threw => call.results[k].jobsFound > 0

Occurrences(seq, x) == Cardinality({k \in 1..Len(seq) : seq[k] = x})

BatchOf(k) == (k - 1) \div maxConcurrency

\* No other run of the same adapter shares the batch of r: the records of r are
\* processed one after another, and after those of the earlier batches' runs.
Alone(r) ==
  \A q \in DOMAIN runs \ {r} :
    runs[q].source = runs[r].source => BatchOf(q) # BatchOf(r)

\* C3: processing a (source, externalId) leaves exactly one stored job with that
\* key, whether or not it was stored before; processed one after another (twice
\* in one run, or in two successive runs), a key not stored yet is counted as new
\* and a key already stored is counted as updated, never as new again.
C3_UpsertIdempotent ==
  [][\A r \in DOMAIN runs :
       jobUpsert(r) =>
         /\ Occurrences(jobStore', JobKey(r)) = 1
         /\ \A key \in Range(jobStore) :
              Occurrences(jobStore', key) = Occurrences(jobStore, key)
         /\ runs'[r].jobsNew + runs'[r].jobsUpdated
              = runs[r].jobsNew + runs[r].jobsUpdated + 1
         /\ Alone(r) =>
              (runs'[r].jobsNew = runs[r].jobsNew + 1
                 <=> JobKey(r) \notin Range(jobStore))
  ]_vars

\* One run processed the same posting twice: new the first time, updated the
\* second, and the store holds it once.
C3_Witness ==
  \E r \in DOMAIN runs :
    /\ runs[r].found = 2
    /\ runs[r].jobsNew = 1
    /\ runs[r].jobsUpdated = 1
    /\ Occurrences(jobStore, <<runs[r].source, "p1">>) = 1
    /\ Alone(r)

\* C4: a source whose enabled flag is false is never handed to runScraper, on the
\* explicit path or the all-sources path, whatever its block status.
C4_DisabledNeverScheduled ==
  [][Selecting =>
       \A k \in DOMAIN call'.toRun : health[call'.toRun[k]].enabled]_vars

\* The source a request name stands for in the registry.
Named(srcs) == {toLowerCase(srcs[k]) : k \in DOMAIN srcs}

\* s is blocked and its block window has not elapsed.
BlockedNow(s) == s \in DOMAIN health /\ health[s].isBlocked /\ WindowOpen(s)

\* C5: a scrapeAll call whose explicit sources list names a blocked source with an
\* open block window does not put it in the candidate list and leaves its health
\* record as it was; every adapter run, run record and result of a call belongs to
\* a candidate, and a run changes no health record but its own source's; a call
\* that names only that source returns no results and zero totals.
C5_BlockedNamedSourceSkipped ==
  [][/\ Selecting =>
          \A s \in Named(call'.sources) :
            BlockedNow(s) =>
              /\ s \notin Range(call'.toRun)
              /\ health'[s] = health[s]
              /\ Named(call'.sources) = {s} =>
                   /\ call'.pc = "returned"
                   /\ call'.results = <<>>
                   /\ call'.totalJobsNew = 0 /\ call'.totalJobsUpdated = 0
     /\ \A r \in DOMAIN runs' : runs'[r].source \in Range(call'.toRun)
     /\ \A k \in DOMAIN runRecords' : runRecords'[k].source \in Range(call'.toRun)
     /\ \A k \in DOMAIN call'.results :
          call'.results[k].source \in Range(call'.toRun)
     /\ call.pc # "idle" =>
          \A s \in DOMAIN health \ Range(call.toRun) : health'[s] = health[s]
    ]_vars

C5_Witness ==
  /\ call.pc = "returned"
  /\ call.sources = <<"linkedin">>
  /\ BlockedNow("linkedin")
  /\ call.results = <<>>
  /\ runs = <<>> /\ runRecords = <<>>

\* C6: an availability check of a blocked source made when now - blockedAt >= 24h
\* clears isBlocked and blockedAt and resets consecutiveFailures to 0 (touching
\* nothing else in the record); one made before that changes nothing in the record
\* and reports the source unavailable.
C6_ExpiredBlockIsReset ==
  [][Selecting =>
       \A s \in DOMAIN health :
         (Checked(s, call'.sources) /\ health[s].isBlocked) =>
           IF WindowOpen(s)
           THEN health'[s] = health[s] /\ s \notin Range(call'.toRun)
           ELSE health'[s] = [health[s] EXCEPT !.isBlocked = FALSE,
                                               !.blockedAt = None,
                                               !.consecutiveFailures = 0]
    ]_vars

\* An expired block was lifted by a call's availability check, and the source has
\* failed once since: its count restarts from zero.
C6_Witness ==
  \E s \in call.unblocked :
    /\ ~health[s].isBlocked
    /\ health[s].consecutiveFailures = 1
    /\ \E r \in DOMAIN runs : runs[r].source = s /\ runs[r].pc = "done"

\* C7: whatever fails inside a run (adapter, job lookup or upsert, run-record
\* create or update), runScraper returns a result object and the scrapeAll call
\* that launched it does not complete by throwing.
C7_BatchOperationsNeverThrow ==
  /\ \A r \in DOMAIN runs : runs[r].pc # "rejected"
  /\ call.toRun # <<>> => call.pc # "threw"

\* C8: the runs of a call are the candidates in order, launched batch by batch; at
\* most maxConcurrency of them are in flight, and whenever a run of a later batch
\* exists every run of the earlier batches has returned its result.
C8_BatchesOfAtMostThree ==
  /\ Cardinality(InFlight) <= maxConcurrency
  /\ Len(runs) <= Len(call.toRun)
  /\ \A r \in DOMAIN runs : runs[r].source = call.toRun[r]
  /\ \A q, r \in DOMAIN runs : BatchOf(q) < BatchOf(r) => runs[q].pc = "done"
  /\ call.pc = "running" =>
       /\ Len(runs) = Min(call.i + maxConcurrency, Len(call.toRun))
       /\ call.i = maxConcurrency * BatchOf(Len(runs))
       /\ Len(call.results) = call.i

\* A run of the second batch is in flight after the three of the first returned.
C8_Witness ==
  /\ Len(runs) = maxConcurrency + 1
  /\ runs[maxConcurrency + 1].pc = "scrape"
  /\ \A q \in 1..maxConcurrency : runs[q].pc = "done"
  /\ Len(call.results) = maxConcurrency

\* C9: a source appears at most once in the candidate list of a call, so no two
\* runs of one source are in flight together.
C9_OneRunPerSource ==
  /\ \A s \in Sources : Occurrences(call.toRun, s) <= 1
  /\ \A q, r \in InFlight : q # r => runs[q].source # runs[r].source

\* C10: a failed run adds one to its source's consecutiveFailures and sets lastRun;
\* its result has blocked = true exactly when this failure took the source from
\* Available to Blocked, and blockedAt is stamped only then.
C10_FailureCountsAndBlocks ==
  [][\A r \in DOMAIN runs :
       runFails(r) =>
         LET s == runs[r].source
             newBlock == ~health[s].isBlocked /\ health'[s].isBlocked
         IN /\ health'[s].consecutiveFailures = health[s].consecutiveFailures + 1
            /\ health'[s].lastRun = now
            /\ runs'[r].blocked <=> newBlock
            /\ newBlock <=> health'[s].consecutiveFailures = maxConsecutiveFailures
            /\ health'[s].blockedAt = IF newBlock THEN now ELSE health[s].blockedAt
    ]_vars

\* C11: when a run ends in success its source's health has consecutiveFailures = 0,
\* isBlocked = false, blockedAt cleared and lastSuccess = lastRun = the completion
\* time, whatever it was before (blocked included); the enabled flag and every
\* other source's record are untouched.
C11_SuccessResetsHealth ==
  [][\A r \in DOMAIN runs :
       runSucceeds(r) =>
         LET s == runs[r].source IN
           /\ health'[s] = [enabled |-> health[s].enabled, isBlocked |-> FALSE,
                            blockedAt |-> None, consecutiveFailures |-> 0,
                            lastSuccess |-> now, lastRun |-> now]
           /\ \A o \in DOMAIN health \ {s} : health'[o] = health[o]
           /\ resultOf(runs'[r]).success /\ ~resultOf(runs'[r]).blocked
    ]_vars

\* A run of a source succeeded after an overlapping run of it had blocked the
\* source: the success left it available with a zero count.
C11_Witness ==
  \E q, r \in DOMAIN runs :
    /\ runs[q].source = runs[r].source
    /\ runs[q].pc = "done" /\ ~runs[q].success /\ runs[q].blocked
    /\ runs[r].pc = "done" /\ runs[r].success
    /\ ~health[runs[r].source].isBlocked
    /\ health[runs[r].source].consecutiveFailures = 0
    /\ health[runs[r].source].lastSuccess = now

\* The profile yields no non-blank keyword: no target roles (or only blank ones)
\* and no skill with a non-blank name.
NoProfileKeyword ==
  /\ \/ config.jobTarget.kind \in {"missing", "null", "json"}
     \/ /\ config.jobTarget.kind = "array"
        /\ \A k \in DOMAIN config.jobTarget.items :
             /\ config.jobTarget.items[k].type = "string"
             /\ \A c \in Range(config.jobTarget.items[k].value) : c = " "
     \/ /\ config.jobTarget.kind = "text"
        /\ \A c \in Range(config.jobTarget.text) : c \in {" ", ","}
  /\ \A k \in DOMAIN config.skills : \A c \in Range(config.skills[k]) : c = " "

\* The caller's overrides supply no keyword.
NoOverride == ~config.custom.present \/ config.custom.keywords = <<>>

Counted(run) == run.jobsNew + run.jobsUpdated

\* C13: a success result has jobsFound = the number of records the adapter
\* returned and jobsNew + jobsUpdated = the number of them processed without a
\* failure (one more per completed upsert, none per failed record), so at most
\* jobsFound; a failed result has jobsFound = jobsNew = jobsUpdated = 0; the
\* call's totals are the sums over its results.
C13_CountsAddUp ==
  [][/\ \A r \in DOMAIN runs :
          /\ jobUpsert(r) => Counted(runs'[r]) = Counted(runs[r]) + 1
          /\ jobFails(r) => Counted(runs'[r]) = Counted(runs[r])
          /\ (\E jobs \in JobLists : scrapeReturns(r, jobs)) =>
               runs'[r].found = Len(runs'[r].jobs) /\ Counted(runs'[r]) = 0
     /\ \A r \in DOMAIN runs' :
          Counted(runs'[r]) + Len(runs'[r].jobs) <= runs'[r].found
     /\ \A k \in DOMAIN call'.results :
          LET res == call'.results[k] IN
            IF res.success
            THEN /\ res.jobsFound = runs'[k].found
                 /\ res.jobsNew = runs'[k].jobsNew
                 /\ res.jobsUpdated = runs'[k].jobsUpdated
                 /\ res.jobsNew + res.jobsUpdated <= res.jobsFound
            ELSE res.jobsFound = 0 /\ res.jobsNew = 0 /\ res.jobsUpdated = 0
     /\ call'.totalJobsNew = sumOf(call'.results, "jobsNew")
     /\ call'.totalJobsUpdated = sumOf(call'.results, "jobsUpdated")
    ]_vars

\* A call returned a success result that counts one of two found records (the
\* other failed) next to a failed result.
C13_Witness ==
  /\ call.pc = "returned"
  /\ \E k \in DOMAIN call.results :
       /\ call.results[k].success
       /\ call.results[k].jobsFound = 2
       /\ call.results[k].jobsNew + call.results[k].jobsUpdated = 1
  /\ \E k \in DOMAIN call.results : ~call.results[k].success
  /\ call.totalJobsNew + call.totalJobsUpdated >= 2

\* C14: a failure of one record's processing (lookup or upsert) moves runScraper to
\* the next record (or to the run's completion) with the counts as they were; the
\* run then completes as a success: result success = true, run record
\* status = success with jobsFound counting the failed record, health update with
\* consecutiveFailures = 0.
C14_JobFailureIsSkipped ==
  [][\A r \in DOMAIN runs :
       /\ jobFails(r) =>
            /\ runs'[r].jobs = Tail(runs[r].jobs)
            /\ runs'[r].pc = IF Len(runs[r].jobs) > 1 THEN "find" ELSE "update"
            /\ runs'[r].found = runs[r].found
            /\ runs'[r].jobsNew = runs[r].jobsNew
            /\ runs'[r].jobsUpdated = runs[r].jobsUpdated
            /\ ~runs'[r].threw
            /\ health' = health /\ runRecords' = runRecords
       /\ runSucceeds(r) =>
            /\ resultOf(runs'[r]).success
            /\ resultOf(runs'[r]).jobsFound = runs[r].found
            /\ resultOf(runs'[r]).jobsNew = runs[r].jobsNew
            /\ resultOf(runs'[r]).jobsUpdated = runs[r].jobsUpdated
            /\ runRecords'[runs[r].runId].status = "success"
            /\ runRecords'[runs[r].runId].jobsFound = runs[r].found
            /\ runRecords'[runs[r].runId].jobsNew = runs[r].jobsNew
            /\ runRecords'[runs[r].runId].jobsUpdated = runs[r].jobsUpdated
            /\ health'[runs[r].source].consecutiveFailures = 0
    ]_vars

\* The first of two records failed, the second was stored, the run succeeded.
C14_Witness ==
  \E r \in DOMAIN runs :
    /\ runs[r].pc = "done" /\ runs[r].success
    /\ runs[r].found = 2 /\ Counted(runs[r]) = 1
    /\ runRecords[runs[r].runId].status = "success"
    /\ runRecords[runs[r].runId].jobsFound = 2
    /\ health[runs[r].source].consecutiveFailures = 0
    /\ Occurrences(jobStore, <<runs[r].source, "p1">>) = 1

\* C16: scoreNewJobs scores only jobs without a score row, at most limit of them,
\* goes on after a job whose scoring failed, and returns the number of jobs that
\* now have a persisted score row: a job whose scoring failed is not counted.
C16_ScoredCountsPersistedRows ==
  [][/\ \A limit \in ScoreLimits :
          scoreNewJobs(limit) =>
            /\ Len(score'.pending) <= limit
            /\ \A k \in DOMAIN score'.pending :
                 /\ score'.pending[k] \in Range(jobStore) \ scoreRows
                 /\ \A j \in DOMAIN score'.pending : j # k =>
                      score'.pending[j] # score'.pending[k]
     /\ scoreJobPersists =>
          /\ Head(score.pending) \in scoreRows'
          /\ score'.scored = score.scored + 1
     /\ (score.pc = "scoring" /\ score'.pending = Tail(score.pending)
           /\ Head(score.pending) \notin scoreRows') =>
          /\ score'.pc \in {"scoring", "returned"}
          /\ score'.scored = score.scored
    ]_vars

\* The subsequence of seq at the positions in S.
RECURSIVE SubAt(_, _, _)
SubAt(seq, S, k) ==
  IF k > Len(seq) THEN <<>>
  ELSE (IF k \in S THEN <<seq[k]>> ELSE <<>>) \o SubAt(seq, S, k + 1)

\* C18: with a non-empty parsed required list, calculateSkillMatch returns matched
\* and missing lists that partition it in order, and score = round(100 * matched /
\* required); with an empty one, 75 and two empty lists.  User [Python] against
\* required [Python, Django] gives 50, [Python], [Django].
C18_SkillMatchPartition ==
  (scoring.pc \in {"matched", "threw"} /\ "skillScore" \in DOMAIN scoring) =>
    LET required == parseSkillsString(scoring.skillsRequired)
        n == Len(required)
        res == scoring.skillScore
    IN /\ scoring.pc = "matched"
       /\ n = 0 => res = [score |-> 75, matchedSkills |-> <<>>, missingSkills |-> <<>>]
       /\ n > 0 =>
            /\ \E S \in SUBSET (1..n) :
                 /\ res.matchedSkills = SubAt(required, S, 1)
                 /\ res.missingSkills = SubAt(required, (1..n) \ S, 1)
            /\ 2 * res.score * n - n <= 200 * Len(res.matchedSkills)
            /\ 200 * Len(res.matchedSkills) < 2 * res.score * n + n
       /\ (required = <<Python, Django>> /\ scoring.userSkills = <<Python>>) =>
            res = [score |-> 50, matchedSkills |-> <<Python>>,
                   missingSkills |-> <<Django>>]

\* The names of entry i of the synonym table.
Canonical(i) == SKILL_SYNONYMS[i].canonical

Synonyms(i) == Range(SKILL_SYNONYMS[i].synonyms)

\* One of x, y is a canonical skill and the other a synonym listed for it, letter
\* case and surrounding whitespace aside.
SynonymPair(x, y) ==
  LET lx == trim(toLowerCaseStr(x))
      ly == trim(toLowerCaseStr(y))
  IN \E i \in DOMAIN SKILL_SYNONYMS :
       \/ lx \in Synonyms(i) /\ ly = Canonical(i)
       \/ lx = Canonical(i) /\ ly \in Synonyms(i)

\* C19: a required skill and a user skill of which one is a canonical name and the
\* other a synonym listed for it match, in both directions, whatever the letter
\* case and the surrounding whitespace.
C19_SynonymsMatchBothWays ==
  ("skillScore" \in DOMAIN scoring /\ scoring.pc # "skills") =>
    LET required == parseSkillsString(scoring.skillsRequired) IN
      (Len(required) = 1 /\ Len(scoring.userSkills) = 1
         /\ SynonymPair(required[1], scoring.userSkills[1])) =>
        /\ scoring.pc = "matched"
        /\ scoring.skillScore =
             [score |-> 100, matchedSkills |-> required, missingSkills |-> <<>>]

\* Required "JS" was matched against user "JavaScript".
C19_Witness ==
  /\ scoring.pc = "matched"
  /\ "skillScore" \in DOMAIN scoring
  /\ parseSkillsString(scoring.skillsRequired) = <<JS>>
  /\ scoring.userSkills = <<JavaScript>>
  /\ scoring.skillScore.matchedSkills = <<JS>>

\* C15: scoreJob never throws. When reading the profile, computing a component
\* or persisting the score raises, scoreJob returns overallScore 50 and all five
\* component scores 50, the three analyses "Unable to analyze", empty matched
\* and missing skill lists and the error note in cons.
C15_ScoreJobNeverThrows ==
  ("error" \in DOMAIN scoring) =>
    /\ scoring.threw = FALSE
    /\ scoring.error # "none" =>
         /\ scoring.pc = "returned"
         /\ scoring.result.overallScore = 50
         /\ \A f \in {"semanticScore", "skillMatchScore", "experienceMatchScore",
                      "salaryMatchScore", "locationMatchScore"} :
              scoring.result[f].n = 50 * scoring.result[f].d
         /\ \A f \in {"experienceAnalysis", "salaryAnalysis", "locationAnalysis"} :
              scoring.result.breakdown[f] = "Unable to analyze"
         /\ scoring.result.matchedSkills = <<>>
         /\ scoring.result.missingSkills = <<>>
         /\ scoring.result.breakdown.cons = <<"Error occurred during scoring">>

\* The score was computed, the upsert was rejected, and scoreJob returned.
C15_Witness ==
  /\ "error" \in DOMAIN scoring
  /\ scoring.pc = "returned"
  /\ scoring.error = "upsert"
  /\ ~scoring.saved

\* C17: in every scoreJob result, normal or fallback, each of the five
\* component scores and overallScore lie in [0, 100], and overallScore is the
\* weighted sum 0.30 semantic + 0.30 skill + 0.20 experience + 0.10 salary
\* + 0.10 location of the returned components rounded to the nearest integer
\* (halves up): with the sum written as w / 10, w - 5 < 10 * overall <= w + 5.
C17_ScoresInRange ==
  ("result" \in DOMAIN scoring /\ scoring.pc = "returned" /\ ~scoring.threw) =>
    LET res == scoring.result
        parts == <<res.semanticScore, res.skillMatchScore, res.experienceMatchScore,
                   res.salaryMatchScore, res.locationMatchScore>>
        weights == <<3, 3, 2, 1, 1>>
        D == parts[1].d * parts[2].d * parts[3].d * parts[4].d * parts[5].d
        W == weights[1] * parts[1].n * (D \div parts[1].d)
               + weights[2] * parts[2].n * (D \div parts[2].d)
               + weights[3] * parts[3].n * (D \div parts[3].d)
               + weights[4] * parts[4].n * (D \div parts[4].d)
               + weights[5] * parts[5].n * (D \div parts[5].d)
    IN /\ \A k \in 1..5 : parts[k].d > 0 /\ 0 <= parts[k].n
                           /\ parts[k].n <= 100 * parts[k].d
       /\ 0 <= res.overallScore /\ res.overallScore <= 100
       /\ W - 5 * D < 10 * D * res.overallScore
       /\ 10 * D * res.overallScore <= W + 5 * D

\* A normal result whose salary score was floored at 0 (negative salaryMax
\* below the user's minimum) and whose experience score is fractional.
C17_Witness ==
  /\ "result" \in DOMAIN scoring
  /\ scoring.pc = "returned"
  /\ scoring.saved
  /\ scoring.job.salaryMax < 0 /\ scoring.job.salaryMax # None
  /\ scoring.result.salaryMatchScore.n = 0
  /\ scoring.result.experienceMatchScore.n % scoring.result.experienceMatchScore.d # 0

\* C20: calculateSalaryMatch decides in this order, for every job and target:
\* the job has neither salaryMin nor salaryMax: 70, whatever the targets are;
\* else the user has no minimum target: 80; else the job's salaryMax is below
\* the user's minimum: max(0, 100 - percentage gap); else the job's salaryMin
\* is above the user's maximum target: 95; otherwise 85. Stated for postings
\* whose salary fields are null or positive.
C20_SalaryDecisionOrder ==
  ("result" \in DOMAIN scoring /\ scoring.pc \in {"computed", "returned"}
     /\ scoring.error = "none"
     /\ scoring.job.salaryMin \in {None} \cup (1..200)
     /\ scoring.job.salaryMax \in {None} \cup (1..200)) =>
    LET job == scoring.job
        targets == scoring.targets
        salary == scoring.result.salaryMatchScore
        is(k) == salary.n = k * salary.d
    IN IF job.salaryMin = None /\ job.salaryMax = None THEN is(70)
       ELSE IF targets.row = FALSE \/ targets.minSalary = None THEN is(80)
       ELSE IF job.salaryMax # None /\ job.salaryMax < targets.minSalary
       THEN \* 100 - (minSalary - salaryMax) / minSalary * 100, floored at 0
            IF job.salaryMax <= 0 THEN is(0)
            ELSE salary.n * targets.minSalary = 100 * job.salaryMax * salary.d
       ELSE IF /\ job.salaryMin # None
               /\ targets.maxSalary # None
               /\ job.salaryMin > targets.maxSalary
       THEN is(95)
       ELSE is(85)

\* C21: unblockSource on a known source sets isBlocked = false, clears blockedAt
\* and resets consecutiveFailures to 0, leaves enabled, lastRun and lastSuccess
\* of that source and every other source's record unchanged, and returns true;
\* an enabled, unblocked source is scheduled by the next scrapeAll that asks for
\* it; on an unknown source unblockSource changes nothing and returns false.
C21_UnblockSource ==
  [][/\ \A s \in RequestNames :
          unblockSource(s) =>
            IF s \in Sources
            THEN /\ unblockSourceOn(health, s).ret = TRUE
                 /\ health'[s].isBlocked = FALSE
                 /\ health'[s].blockedAt = None
                 /\ health'[s].consecutiveFailures = 0
                 /\ health'[s].enabled = health[s].enabled
                 /\ health'[s].lastRun = health[s].lastRun
                 /\ health'[s].lastSuccess = health[s].lastSuccess
                 /\ \A o \in Sources \ {s} : health'[o] = health[o]
                 /\ DOMAIN health' = DOMAIN health
                 /\ scraperEnabled' = scraperEnabled
            ELSE /\ unblockSourceOn(health, s).ret = FALSE
                 /\ health' = health
                 /\ scraperEnabled' = scraperEnabled
     /\ \A s \in Sources :
          (Selecting /\ Checked(s, call'.sources) /\ health[s].enabled
             /\ ~health[s].isBlocked /\ health[s].consecutiveFailures = 0) =>
            s \in Range(call'.toRun)
  ]_vars

\* A source that has failed and never succeeded has its count back at 0 although
\* no time has passed (unblockSource reset it), and the third call schedules it.
C21_Witness ==
  /\ call.pc = "running"
  /\ call.n = MaxCalls
  /\ now = 0
  /\ "indeed" \in Range(call.toRun)
  /\ health["indeed"].lastRun # None
  /\ health["indeed"].lastSuccess = None
  /\ health["indeed"].consecutiveFailures = 0
  /\ health["indeed"].enabled

\* C22: setSourceEnabled changes only the enabled flag of the named source
\* (nothing at all for an unknown name): isBlocked, blockedAt,
\* consecutiveFailures, lastRun and lastSuccess of that source and every field
\* of every other source are unchanged; and no other step (run outcome,
\* availability check, unblock) changes a source's enabled flag.
C22_EnabledFlagFrame ==
  [][/\ \A s \in RequestNames : \A e \in BOOLEAN :
          setSourceEnabled(s, e) =>
            IF s \in Sources
            THEN /\ health'[s] = [health[s] EXCEPT !.enabled = e]
                 /\ \A o \in Sources \ {s} : health'[o] = health[o]
                 /\ DOMAIN health' = DOMAIN health
            ELSE health' = health /\ scraperEnabled' = scraperEnabled
     /\ \A s \in Sources :
          health'[s].enabled # health[s].enabled =>
            setSourceEnabled(s, health'[s].enabled)
  ]_vars

\* A blocked source was disabled and its block and count are still in place,
\* and the other source was run with success while it stayed enabled.
C22_Witness ==
  /\ ~health["indeed"].enabled
  /\ health["indeed"].isBlocked
  /\ health["indeed"].consecutiveFailures >= maxConsecutiveFailures
  /\ health["indeed"].blockedAt # None
  /\ health["linkedin"].enabled
  /\ health["linkedin"].lastSuccess # None

\* C28: for every source isBlocked holds iff blockedAt is set and iff
\* consecutiveFailures >= 3; consecutiveFailures >= 0; and the sources that have
\* a health record are exactly the registered adapters.
C28_HealthRecordInvariant ==
  /\ DOMAIN health = Range(scrapers)
  /\ \A s \in DOMAIN health :
       /\ health[s].isBlocked <=> health[s].blockedAt # None
       /\ health[s].isBlocked <=> health[s].consecutiveFailures >= maxConsecutiveFailures
       /\ health[s].consecutiveFailures >= 0

\* A source blocked with more than three failures, after an earlier block of
\* the other source was lifted.
C28_Witness ==
  /\ health["indeed"].isBlocked
  /\ health["indeed"].consecutiveFailures > maxConsecutiveFailures
  /\ health["indeed"].blockedAt # None
  /\ ~health["linkedin"].isBlocked
  /\ health["linkedin"].lastRun # None

\* C23: for a job that specifies at least one of experienceMin / experienceMax
\* (a bound of 0 counts as specified) and a user total of y years, the
\* experience score is 100 if min <= y <= max (a missing min is 0, a missing max
\* is unbounded), max(0, 100 - 15 * (min - y)) if y < min and
\* max(60, 100 - 5 * (y - max)) if y > max; a job with neither bound scores 80.
\* y is held in tenths of a year and the score as a fraction n / d.
C23_ExperienceScore ==
  ("result" \in DOMAIN scoring /\ scoring.pc \in {"computed", "returned"}
     /\ scoring.error = "none") =>
    LET job == scoring.job
        tenths == calculateTotalYears(scoring.experiences)
        experience == scoring.result.experienceMatchScore
        min == IF job.experienceMin = None THEN 0 ELSE job.experienceMin
        unbounded == job.experienceMax = None
        max == job.experienceMax
    IN IF job.experienceMin = None /\ job.experienceMax = None
       THEN experience.n = 80 * experience.d
       ELSE IF tenths < 10 * min
       THEN 2 * experience.n
              = experience.d * (IF 200 - 3 * (10 * min - tenths) > 0
                                THEN 200 - 3 * (10 * min - tenths) ELSE 0)
       ELSE IF ~unbounded /\ tenths > 10 * max
       THEN 2 * experience.n
              = experience.d * (IF 200 - (tenths - 10 * max) > 120
                                THEN 200 - (tenths - 10 * max) ELSE 120)
       ELSE experience.n = 100 * experience.d

\* The runs that have created their run record.
Recorded == {r \in DOMAIN runs : runs[r].runId # 0}

\* C24: each runScraper invocation creates exactly one run record, with status
\* running, before the adapter is invoked; when it returns, that record is
\* success with the jobsFound / jobsNew / jobsUpdated of the returned result if
\* and only if the result has success = true, and otherwise failed with the
\* error message; when scrapeAll has returned none of its records is running.
C24_RunRecordFollowsRun ==
  /\ \A r \in DOMAIN runs :
       /\ runs[r].pc \notin {"create", "rejected"} => r \in Recorded
       /\ runs[r].pc = "create" => r \notin Recorded
       /\ r \in Recorded =>
            /\ runs[r].runId \in DOMAIN runRecords
            /\ runRecords[runs[r].runId].source = runs[r].source
       /\ runs[r].pc = "scrape" => runRecords[runs[r].runId].status = "running"
       /\ runs[r].pc = "done" =>
            LET res == resultOf(runs[r])
                rec == runRecords[runs[r].runId]
            IN IF res.success
               THEN /\ rec.status = "success"
                    /\ rec.jobsFound = res.jobsFound
                    /\ rec.jobsNew = res.jobsNew
                    /\ rec.jobsUpdated = res.jobsUpdated
               ELSE rec.status = "failed" /\ rec.errorMessage
  /\ \A r, q \in Recorded : runs[r].runId = runs[q].runId => r = q
  /\ Len(runRecords) = Cardinality(Recorded)
  /\ call.pc = "returned" =>
       \A k \in DOMAIN runRecords : runRecords[k].status # "running"

\* scrapeAll returned one success result that counted a new job and one failed
\* result; their run records are success and failed.
C24_Witness ==
  /\ call.pc = "returned"
  /\ \E r, q \in DOMAIN runs :
       /\ runs[r].pc = "done" /\ runs[r].success /\ runs[r].jobsNew > 0
       /\ runRecords[runs[r].runId].status = "success"
       /\ runs[q].pc = "done" /\ ~runs[q].success
       /\ runRecords[runs[q].runId].status = "failed"

\* C25: the results list scrapeAll returns has exactly one entry per scheduled
\* adapter run, in candidate-list order (entry k is the result of the run of
\* candidate k, so the results of batch k precede those of batch k + 1),
\* whatever the order in which the runs of a batch complete; while the call is
\* running the list holds the results of the batches already awaited.
C25_ResultsInCandidateOrder ==
  /\ call.pc = "returned" =>
       /\ Len(call.results) = Len(call.toRun)
       /\ Len(runs) = Len(call.toRun)
  /\ call.pc \in {"running", "returned"} =>
       /\ Len(call.results) = Min(call.i, Len(call.toRun))
       /\ \A k \in DOMAIN call.results :
            /\ runs[k].source = call.toRun[k]
            /\ runs[k].pc = "done"
            /\ call.results[k] = resultOf(runs[k])

\* Two batches were returned; in the first one a later candidate stored the
\* posting before the first candidate did.
C25_Witness ==
  /\ call.pc = "returned"
  /\ Len(call.results) = MaxSources
  /\ call.results[1].success /\ call.results[1].jobsNew = 0
  /\ call.results[1].jobsUpdated > 0
  /\ call.results[2].success /\ call.results[2].jobsNew > 0
  /\ call.results[MaxSources].success

\* The attempts of the fetchWithRetry call that saw an ok response.
OkAttempts == {k \in DOMAIN fetching.seen : fetching.seen[k] = "200"}

\* C26: fetchWithRetry always terminates, after at most retryCount (3) fetch
\* attempts: it returns the first ok response, and when no attempt yields an ok
\* response it throws an error instead of retrying further, whatever mix of
\* timeouts, network errors, 429 and 5xx responses the attempts see.
C26_FetchTerminates ==
  /\ []("seen" \in DOMAIN fetching =>
          /\ Len(fetching.seen) <= retryCount
          /\ fetching.pc = "returned" <=> OkAttempts # {}
          /\ OkAttempts \subseteq {Len(fetching.seen)}
          /\ fetching.pc = "threw" => fetching.error # "null"
          /\ (Len(fetching.seen) = retryCount /\ OkAttempts = {}) =>
               fetching.pc \in {"delay", "threw"})
  /\ <>(fetching.pc \in {"returned", "threw"})

\* Three attempts were rate limited: the call threw after the third.
C26_Witness ==
  /\ "seen" \in DOMAIN fetching
  /\ fetching.pc = "threw"
  /\ Len(fetching.seen) = retryCount
  /\ \A k \in DOMAIN fetching.seen : fetching.seen[k] = "429"
  /\ fetching.error = "All retry attempts failed"

\* C27: a non-ok response with a client-error status (4xx other than 429) is
\* not retried: the call fails with "Request failed: <status>" after that
\* single fetch attempt, with no further attempt and no retry delay.
C27_ClientErrorNotRetried ==
  ("seen" \in DOMAIN fetching) =>
    \A k \in DOMAIN fetching.seen :
      fetching.seen[k] = "404" =>
        /\ Len(fetching.seen) = k
        /\ fetching.pc = "threw"
        /\ fetching.error = "Request failed: 404"
        /\ Len(fetching.waited) = k - 1

\* C29: under any interleaving of runs, a given (source, externalId) is reported
\* as new by at most one processJob call, so the sum of jobsNew over all results
\* equals the number of job records created in the store (empty before the
\* first call of the service). Stated for calls without persistence errors.
C29_NewReportedOnce ==
  (call.pc = "returned" /\ faults = 0) =>
    /\ sumOf(call.results, "jobsNew") = Len(jobStore)
    /\ call.totalJobsNew = Len(jobStore)

\* C30: scrapeAll resolves the names of an explicit sources list
\* case-insensitively for the registry lookup and for the availability check:
\* a registered, enabled, unblocked source is scheduled whether its name is
\* written in lower, upper or mixed case, and a name that matches no registered
\* source is skipped without affecting the other named sources.
C30_NamesAreCaseInsensitive ==
  [][(Selecting /\ call'.sources # <<>>) =>
       /\ \A k \in DOMAIN call'.sources :
            LET name == toLowerCase(call'.sources[k]) IN
              (name \in Sources /\ health[name].enabled /\ ~health[name].isBlocked) =>
                name \in Range(call'.toRun)
       /\ Range(call'.toRun) \subseteq Sources
  ]_vars

====
